---- MODULE Spec2Model ----
(***************************************************************************)
(* Model of swagger-rustgen's v2 pipeline: reference resolution, allOf     *)
(* merging, type mapping, prototype discovery and the Rust backend's       *)
(* emission pass.                                                          *)
(*                                                                         *)
(* Strings on which the code computes (names, references, rendered types)  *)
(* are sequences of byte values, so that prefix tests, trimming, ordering  *)
(* and case conversion are computed and not assumed.  Option<T> is a       *)
(* sequence of length at most one.                                         *)
(***************************************************************************)
EXTENDS Integers, Sequences, FiniteSets, TLC

VARIABLES swagger, pc, prototypes, idx, generated_models, output, call,
          prototyper_calls, consumed

\* prototyper_calls counts the calls of Prototyper::generate_prototypes of the
\* run, consumed lists the prototypes handed to a consumer, in order
vars == <<swagger, pc, prototypes, idx, generated_models, output, call,
          prototyper_calls, consumed>>

----------------------------------------------------------------------------
(* Option<T> *)

None == <<>>

Some(x) == <<x>>

IsSome(o) == o # <<>>

IsNone(o) == o = <<>>

Unwrap(o) == o[1]

----------------------------------------------------------------------------
(* String primitives (std::str) *)

\* "#/definitions/"
DEFINITIONS_REF == <<35, 47, 100, 101, 102, 105, 110, 105, 116, 105, 111, 110, 115, 47>>

\* "#/responses/"
RESPONSES_REF == <<35, 47, 114, 101, 115, 112, 111, 110, 115, 101, 115, 47>>

\* "InlineItem"
INLINE_ITEM == <<73, 110, 108, 105, 110, 101, 73, 116, 101, 109>>

StartsWith(s, p) == Len(s) >= Len(p) /\ SubSeq(s, 1, Len(p)) = p

EndsWith(s, p) == Len(s) >= Len(p) /\ SubSeq(s, Len(s) - Len(p) + 1, Len(s)) = p

RECURSIVE TrimStartMatches(_, _)
TrimStartMatches(s, p) ==
    IF Len(p) > 0 /\ StartsWith(s, p)
    THEN TrimStartMatches(SubSeq(s, Len(p) + 1, Len(s)), p)
    ELSE s

\* Ord for String: byte-wise lexicographic order
StrLess(a, b) ==
    \E i \in 1..Len(b) :
        /\ i <= Len(a) + 1
        /\ \A j \in 1..(i - 1) : a[j] = b[j]
        /\ (i = Len(a) + 1 \/ a[i] < b[i])

StrLeq(a, b) == a = b \/ StrLess(a, b)

IsUpper(c) == c \in 65..90

IsLower(c) == c \in 97..122

IsDigit(c) == c \in 48..57

ToUpperChar(c) == IF IsLower(c) THEN c - 32 ELSE c

ToLowerChar(c) == IF IsUpper(c) THEN c + 32 ELSE c

\* '_', '-', ' ': the characters convert_case splits on and drops
IsDelimiter(c) == c \in {95, 45, 32}

\* convert_case word boundaries that keep both characters: a word starts at
\* position i (i > 1) on lower|Upper, on an acronym's end (Upper|Upper lower)
\* and on a letter|digit or digit|letter change.
IsBoundaryBefore(s, i) ==
    /\ i > 1
    /\ \/ IsLower(s[i - 1]) /\ IsUpper(s[i])
       \/ IsUpper(s[i - 1]) /\ IsUpper(s[i]) /\ i < Len(s) /\ IsLower(s[i + 1])
       \/ IsUpper(s[i - 1]) /\ IsDigit(s[i])
       \/ IsDigit(s[i - 1]) /\ IsUpper(s[i])
       \/ IsDigit(s[i - 1]) /\ IsLower(s[i])
       \/ IsLower(s[i - 1]) /\ IsDigit(s[i])

IsWordStart(s, i) ==
    \/ i = 1
    \/ IsDelimiter(s[i - 1])
    \/ IsBoundaryBefore(s, i)

RECURSIVE UpperCamelFrom(_, _)
UpperCamelFrom(s, i) ==
    IF i > Len(s) THEN <<>>
    ELSE IF IsDelimiter(s[i]) THEN UpperCamelFrom(s, i + 1)
    ELSE IF IsWordStart(s, i) THEN <<ToUpperChar(s[i])>> \o UpperCamelFrom(s, i + 1)
    ELSE <<ToLowerChar(s[i])>> \o UpperCamelFrom(s, i + 1)

\* name.to_case(Case::UpperCamel)
ToUpperCamel(s) == UpperCamelFrom(s, 1)

KEYWORDS ==
    {<<97, 115>>, <<98, 114, 101, 97, 107>>, <<99, 111, 110, 115, 116>>,
     <<99, 111, 110, 116, 105, 110, 117, 101>>, <<99, 114, 97, 116, 101>>,
     <<101, 108, 115, 101>>, <<101, 110, 117, 109>>, <<101, 120, 116, 101, 114, 110>>,
     <<102, 97, 108, 115, 101>>, <<102, 110>>, <<102, 111, 114>>, <<105, 102>>,
     <<105, 109, 112, 108>>, <<105, 110>>, <<108, 101, 116>>, <<108, 111, 111, 112>>,
     <<109, 97, 116, 99, 104>>, <<109, 111, 100>>, <<109, 111, 118, 101>>,
     <<109, 117, 116>>, <<112, 117, 98>>, <<114, 101, 102>>,
     <<114, 101, 116, 117, 114, 110>>, <<115, 101, 108, 102>>, <<83, 101, 108, 102>>,
     <<115, 116, 97, 116, 105, 99>>, <<115, 116, 114, 117, 99, 116>>,
     <<115, 117, 112, 101, 114>>, <<116, 114, 97, 105, 116>>, <<116, 114, 117, 101>>,
     <<116, 121, 112, 101>>, <<117, 110, 115, 97, 102, 101>>, <<117, 115, 101>>,
     <<119, 104, 101, 114, 101>>, <<119, 104, 105, 108, 101>>}

is_keyword(word) == word \in KEYWORDS

fix_name_if_keyword(name) == IF is_keyword(name) THEN name \o <<95>> ELSE name

format_type_name(name) == fix_name_if_keyword(ToUpperCamel(name))

----------------------------------------------------------------------------
(* Schema model *)

DefaultSchema ==
    [ref_ |-> None, format |-> None, title |-> None, description |-> None,
     required |-> <<>>, type_ |-> None, items |-> None, properties |-> None,
     additional_properties |-> None, enum_ |-> <<>>, all_of |-> <<>>,
     x_go_name |-> None]

ItemReference(r) == [kind |-> "Reference", ref |-> r]

ItemObject(s) == [kind |-> "Object", schema |-> s]

is_reference(item) == item.kind = "Reference"

ResponseReference(r) == [kind |-> "Reference", ref |-> r]

ResponseObject(d, s) == [kind |-> "Object", description |-> d, schema |-> s]

is_of_type(schema, t) == schema.type_ = Some(t)

is_object(schema) == is_of_type(schema, "object")

is_array(schema) == is_of_type(schema, "array")

is_string_enum(schema) == is_of_type(schema, "string") /\ Len(schema.enum_) > 0

\* a name that prefers the title to the vendor name
schema_name_title_first(schema) ==
    IF IsSome(schema.title) THEN Some(Unwrap(schema.title))
    ELSE IF IsSome(schema.x_go_name) THEN Some(Unwrap(schema.x_go_name))
    ELSE None

\* Schema::name: the vendor name, else the title
schema_name(schema) ==
    IF IsSome(schema.x_go_name) THEN Some(Unwrap(schema.x_go_name))
    ELSE IF IsSome(schema.title) THEN Some(Unwrap(schema.title))
    ELSE None

\* HashMap::get on an Option-less map modelled as a function
MapGet(m, k) == IF k \in DOMAIN m THEN Some(m[k]) ELSE None

\* Definitions::get
definitions_get(definitions, key) ==
    MapGet(definitions, TrimStartMatches(key, DEFINITIONS_REF))

----------------------------------------------------------------------------
(* Reference Resolver *)

\* The recursion of get_ref_schema has no cycle guard.  A reference met twice
\* on one chain is met forever, so the call does not return: Diverges.
Diverges == <<[diverges |-> TRUE]>>

RECURSIVE get_ref_schema_from(_, _, _)
get_ref_schema_from(sw, ref_, visited) ==
    IF StartsWith(ref_, DEFINITIONS_REF)
    THEN IF IsSome(sw.definitions)
         THEN definitions_get(Unwrap(sw.definitions), ref_)
         ELSE None
    ELSE IF StartsWith(ref_, RESPONSES_REF)
    THEN IF IsSome(sw.responses)
         THEN LET response == MapGet(Unwrap(sw.responses), ref_) IN
              IF IsNone(response) THEN None
              ELSE IF Unwrap(response).kind = "Object" THEN Unwrap(response).schema
              ELSE IF Unwrap(response).ref \in visited \cup {ref_} THEN Diverges
              ELSE get_ref_schema_from(sw, Unwrap(response).ref, visited \cup {ref_})
         ELSE None
    ELSE None

get_ref_schema(sw, ref_) == get_ref_schema_from(sw, ref_, {})

----------------------------------------------------------------------------
(* Composition Merger *)

\* an extend that keeps the value of a key the map already holds
MapExtend_keep_existing(m, new) ==
    [k \in (DOMAIN m) \cup (DOMAIN new) |-> IF k \in DOMAIN m THEN m[k] ELSE new[k]]

\* HashMap::extend: keys of the argument overwrite
MapExtend(m, new) ==
    [k \in (DOMAIN m) \cup (DOMAIN new) |-> IF k \in DOMAIN new THEN new[k] ELSE m[k]]

EmptyItems == [k \in {} |-> None]

\* a copy that overwrites a field the accumulator already holds
add_if_set(accField, schemaField) ==
    IF IsSome(schemaField) THEN schemaField ELSE accField

add_if_not_set(accField, schemaField) ==
    IF IsNone(accField) /\ IsSome(schemaField) THEN schemaField ELSE accField

\* lines 68-74: a component carrying a reference is replaced by the schema
\* it resolves to, and kept when it does not resolve
resolve_component(sw, component) ==
    LET resolved == IF IsSome(component.ref_)
                    THEN get_ref_schema(sw, Unwrap(component.ref_))
                    ELSE None
    IN  IF IsSome(resolved) THEN Unwrap(resolved) ELSE component

\* an append that does not look at the accumulator's list
append_always(accList, schemaList) == accList \o schemaList

\* lines 93-99: Vec::append into a list that is still empty
append_if_empty(accList, schemaList) ==
    IF Len(accList) = 0 /\ Len(schemaList) > 0
    THEN accList \o schemaList
    ELSE accList

\* one step of the fold of merge_all_of_schema
merge_fold_step(sw, acc, component) ==
    LET schema == resolve_component(sw, component)
    IN  [acc EXCEPT
            !.properties = IF IsSome(acc.properties) /\ IsSome(schema.properties)
                           THEN Some(MapExtend(Unwrap(acc.properties),
                                               Unwrap(schema.properties)))
                           ELSE acc.properties,
            !.format = add_if_not_set(acc.format, schema.format),
            !.title = add_if_not_set(acc.title, schema.title),
            !.description = add_if_not_set(acc.description, schema.description),
            !.type_ = add_if_not_set(acc.type_, schema.type_),
            !.required = append_if_empty(acc.required, schema.required),
            !.enum_ = append_if_empty(acc.enum_, schema.enum_)]

RECURSIVE merge_fold(_, _, _, _)
merge_fold(sw, acc, all_of, i) ==
    IF i > Len(all_of) THEN acc
    ELSE merge_fold(sw, merge_fold_step(sw, acc, all_of[i]), all_of, i + 1)

\* a merge that starts the fold from the outer schema itself
merge_all_of_schema_from_outer(sw, schema) ==
    IF Len(schema.all_of) > 0
    THEN LET base_schema == [schema EXCEPT
                                !.all_of = <<>>,
                                !.properties = IF IsSome(schema.properties)
                                               THEN schema.properties
                                               ELSE Some(EmptyItems)]
         IN  merge_fold(sw, base_schema, schema.all_of, 1)
    ELSE schema

\* a merge that folds the first component only and leaves the others in the
\* allOf list of its result
merge_all_of_schema_one_component(sw, schema) ==
    IF Len(schema.all_of) > 0
    THEN LET base_schema == [DefaultSchema EXCEPT
                                !.description = schema.description,
                                !.title = schema.title,
                                !.properties = Some(EmptyItems)]
         IN  [merge_fold_step(sw, base_schema, schema.all_of[1]) EXCEPT
                    !.all_of = Tail(schema.all_of)]
    ELSE schema

merge_all_of_schema(sw, schema) ==
    IF Len(schema.all_of) > 0
    THEN LET base_schema == [DefaultSchema EXCEPT
                                !.description = schema.description,
                                !.title = schema.title,
                                !.properties = Some(EmptyItems)]
         IN  merge_fold(sw, base_schema, schema.all_of, 1)
    ELSE schema

----------------------------------------------------------------------------
(* Type Resolver: RustType *)

Ty(tag) == [tag |-> tag]

TyVec(t) == [tag |-> "Vec", arg |-> t]

TyObject(t) == [tag |-> "Object", arg |-> t]

TyOption(t) == [tag |-> "Option", arg |-> t]

TyCustom(name) == [tag |-> "Custom", name |-> name]

\* impl fmt::Display for RustType
RECURSIVE TypeToString(_)
TypeToString(ty) ==
    CASE ty.tag = "I8" -> <<105, 56>>
      [] ty.tag = "U8" -> <<117, 56>>
      [] ty.tag = "I16" -> <<105, 49, 54>>
      [] ty.tag = "U16" -> <<117, 49, 54>>
      [] ty.tag = "I32" -> <<105, 51, 50>>
      [] ty.tag = "U32" -> <<117, 51, 50>>
      [] ty.tag = "I64" -> <<105, 54, 52>>
      [] ty.tag = "U64" -> <<117, 54, 52>>
      [] ty.tag = "F32" -> <<102, 51, 50>>
      [] ty.tag = "F64" -> <<102, 54, 52>>
      [] ty.tag = "ISize" -> <<105, 115, 105, 122, 101>>
      [] ty.tag = "USize" -> <<117, 115, 105, 122, 101>>
      [] ty.tag = "String" -> <<83, 116, 114, 105, 110, 103>>
      [] ty.tag = "DateTime" -> <<68, 97, 116, 101, 84, 105, 109, 101, 60, 85, 116, 99, 62>>
      [] ty.tag = "Bool" -> <<98, 111, 111, 108>>
      [] ty.tag = "Vec" -> <<86, 101, 99, 60>> \o TypeToString(ty.arg) \o <<62>>
      [] ty.tag = "Object" ->
            <<72, 97, 115, 104, 77, 97, 112, 60, 83, 116, 114, 105, 110, 103, 44, 32>>
                \o TypeToString(ty.arg) \o <<62>>
      [] ty.tag = "Option" -> <<79, 112, 116, 105, 111, 110, 60>> \o TypeToString(ty.arg) \o <<62>>
      [] ty.tag = "Custom" -> format_type_name(ty.name)
      [] ty.tag = "Value" -> <<86, 97, 108, 117, 101>>

\* RustType::from_integer_format
from_integer_format(format) ==
    CASE format = <<105, 110, 116>> -> Some(Ty("ISize"))                 \* "int"
      [] format = <<117, 105, 110, 116>> -> Some(Ty("USize"))            \* "uint"
      [] format = <<105, 110, 116, 54, 52>> -> Some(Ty("I64"))           \* "int64"
      [] format = <<117, 105, 110, 116, 54, 52>> -> Some(Ty("U64"))      \* "uint64"
      [] format = <<105, 110, 116, 51, 50>> -> Some(Ty("I32"))           \* "int32"
      [] format = <<117, 105, 110, 116, 51, 50>> -> Some(Ty("U32"))      \* "uint32"
      [] format = <<105, 110, 116, 49, 54>> -> Some(Ty("I16"))           \* "int16"
      [] format = <<117, 105, 110, 116, 49, 54>> -> Some(Ty("U16"))      \* "uint16"
      [] format = <<105, 110, 116, 56>> -> Some(Ty("I8"))                \* "int8"
      [] format = <<117, 105, 110, 116, 56>> -> Some(Ty("U8"))           \* "uint8"
      [] OTHER -> None

\* str::to_lowercase (ASCII)
ToLowercase(s) == [i \in 1..Len(s) |-> ToLowerChar(s[i])]

\* fn trim_reference
trim_reference(ref_) ==
    TrimStartMatches(TrimStartMatches(ref_, DEFINITIONS_REF), RESPONSES_REF)

\* the "integer" arm: the mapped format, else the default integer type
map_integer(schema, default) ==
    LET mapped == IF IsSome(schema.format)
                  THEN from_integer_format(Unwrap(schema.format))
                  ELSE None
    IN  IF IsSome(mapped) THEN Unwrap(mapped) ELSE default

\* the "string" arm
map_string(schema) ==
    LET fmt == IF IsSome(schema.format) THEN Some(ToLowercase(Unwrap(schema.format)))
               ELSE None
    IN  IF fmt \in {Some(<<100, 97, 116, 101, 45, 116, 105, 109, 101>>),       \* "date-time"
                    Some(<<100, 97, 116, 101, 116, 105, 109, 101>>),           \* "datetime"
                    Some(<<100, 97, 116, 101, 32, 116, 105, 109, 101>>)}       \* "date time"
        THEN Ty("DateTime")
        ELSE IF fmt = Some(<<98, 105, 110, 97, 114, 121>>)                     \* "binary"
        THEN TyVec(Ty("U8"))
        ELSE Ty("String")

\* the "number" arm: Option<RustType>
map_number(schema) ==
    IF schema.format = Some(<<100, 111, 117, 98, 108, 101>>) THEN Some(Ty("F64"))     \* "double"
    ELSE IF schema.format = Some(<<102, 108, 111, 97, 116>>) THEN Some(Ty("F32"))     \* "float"
    ELSE None

RECURSIVE map_schema_type_with(_, _, _, _, _, _)
RECURSIVE map_item_type_with(_, _, _, _, _)
RECURSIVE map_reference_type_with(_, _, _, _, _)

\* a mapper whose "object" arm looks at the properties before the
\* additionalProperties
map_schema_type_properties_first(default, sw, schema, ref_, is_required, parent_name) ==
    IF IsNone(schema.type_) THEN None
    ELSE
    LET ty == Unwrap(schema.type_)
        items_ty(item) == map_item_type_with(default, sw, item, TRUE, parent_name)
        base ==
            CASE ty = "integer" -> Some(map_integer(schema, default))
              [] ty = "string" -> Some(map_string(schema))
              [] ty = "boolean" -> Some(Ty("Bool"))
              [] ty = "array" ->
                    IF IsSome(ref_) THEN Some(TyCustom(trim_reference(Unwrap(ref_))))
                    ELSE IF IsSome(schema.items)
                    THEN LET t == items_ty(Unwrap(schema.items)) IN
                         IF IsSome(t) THEN Some(TyVec(Unwrap(t))) ELSE None
                    ELSE None
              [] ty = "object" ->
                    IF IsSome(ref_) THEN Some(TyCustom(trim_reference(Unwrap(ref_))))
                    ELSE IF IsSome(schema.properties)
                    THEN IF IsSome(schema_name(schema))
                         THEN Some(TyCustom(Unwrap(schema_name(schema))))
                         ELSE IF IsSome(parent_name)
                         THEN Some(TyCustom(Unwrap(parent_name) \o INLINE_ITEM))
                         ELSE Some(Ty("Value"))
                    ELSE IF IsSome(schema.additional_properties)
                    THEN LET t == items_ty(Unwrap(schema.additional_properties)) IN
                         IF IsSome(t) THEN Some(TyObject(Unwrap(t))) ELSE None
                    ELSE IF IsSome(schema.items)
                    THEN LET t == items_ty(Unwrap(schema.items)) IN
                         IF IsSome(t) THEN Some(TyObject(Unwrap(t))) ELSE None
                    ELSE Some(Ty("Value"))
              [] ty = "number" -> map_number(schema)
              [] OTHER -> None
    IN  IF IsNone(base) THEN None
        ELSE IF ~is_required THEN Some(TyOption(Unwrap(base)))
        ELSE base

\* the body shared by RustType::map_schema_type, Swagger::map_schema_type and
\* CodeGenerator::map_schema_type; they differ in the default integer type.
\* The result is Option<RustType>.
map_schema_type_with(default, sw, schema, ref_, is_required, parent_name) ==
    IF IsNone(schema.type_) THEN None
    ELSE
    LET ty == Unwrap(schema.type_)
        items_ty(item) == map_item_type_with(default, sw, item, TRUE, parent_name)
        base ==
            CASE ty = "integer" -> Some(map_integer(schema, default))
              [] ty = "string" -> Some(map_string(schema))
              [] ty = "boolean" -> Some(Ty("Bool"))
              [] ty = "array" ->
                    IF IsSome(ref_) THEN Some(TyCustom(trim_reference(Unwrap(ref_))))
                    ELSE IF IsSome(schema.items)
                    THEN LET t == items_ty(Unwrap(schema.items)) IN
                         IF IsSome(t) THEN Some(TyVec(Unwrap(t))) ELSE None
                    ELSE None
              [] ty = "object" ->
                    IF IsSome(ref_) THEN Some(TyCustom(trim_reference(Unwrap(ref_))))
                    ELSE IF IsSome(schema.additional_properties)
                    THEN LET t == items_ty(Unwrap(schema.additional_properties)) IN
                         IF IsSome(t) THEN Some(TyObject(Unwrap(t))) ELSE None
                    ELSE IF IsSome(schema.items)
                    THEN LET t == items_ty(Unwrap(schema.items)) IN
                         IF IsSome(t) THEN Some(TyObject(Unwrap(t))) ELSE None
                    ELSE IF IsSome(schema.properties)
                    THEN IF IsSome(schema_name(schema))
                         THEN Some(TyCustom(Unwrap(schema_name(schema))))
                         ELSE IF IsSome(parent_name)
                         THEN Some(TyCustom(Unwrap(parent_name) \o INLINE_ITEM))
                         ELSE Some(Ty("Value"))
                    ELSE Some(Ty("Value"))
              [] ty = "number" -> map_number(schema)
              [] OTHER -> None
    IN  IF IsNone(base) THEN None
        ELSE IF ~is_required THEN Some(TyOption(Unwrap(base)))
        ELSE base

\* a reference mapper that does not pass the reference on as a hint
map_reference_type_without_hint(default, sw, ref_, is_required, parent_name) ==
    LET schema == get_ref_schema(sw, ref_) IN
    IF IsNone(schema) THEN None
    ELSE map_schema_type_with(default, sw, Unwrap(schema), None, is_required, parent_name)

\* a reference mapper that applies the required-ness a second time
map_reference_type_rewrapping(default, sw, ref_, is_required, parent_name) ==
    LET schema == get_ref_schema(sw, ref_)
        ty == IF IsNone(schema) THEN None
              ELSE map_schema_type_with(default, sw, Unwrap(schema),
                       Some(TrimStartMatches(TrimStartMatches(ref_, RESPONSES_REF),
                                             DEFINITIONS_REF)),
                       is_required, parent_name)
    IN  IF IsSome(ty) /\ ~is_required THEN Some(TyOption(Unwrap(ty))) ELSE ty

map_reference_type_with(default, sw, ref_, is_required, parent_name) ==
    LET schema == get_ref_schema(sw, ref_) IN
    IF IsNone(schema) THEN None
    ELSE map_schema_type_with(default, sw, Unwrap(schema),
             Some(TrimStartMatches(TrimStartMatches(ref_, RESPONSES_REF), DEFINITIONS_REF)),
             is_required, parent_name)

map_item_type_with(default, sw, item, is_required, parent_name) ==
    IF item.kind = "Reference"
    THEN map_reference_type_with(default, sw, item.ref, is_required, parent_name)
    ELSE map_schema_type_with(default, sw, item.schema, None, is_required, parent_name)

\* RustType::map_schema_type and Swagger::map_schema_type: default isize
map_schema_type(sw, schema, ref_, is_required, parent_name) ==
    map_schema_type_with(Ty("ISize"), sw, schema, ref_, is_required, parent_name)

map_reference_type(sw, ref_, is_required, parent_name) ==
    map_reference_type_with(Ty("ISize"), sw, ref_, is_required, parent_name)

map_item_type(sw, item, is_required, parent_name) ==
    map_item_type_with(Ty("ISize"), sw, item, is_required, parent_name)

\* CodeGenerator::map_schema_type: default usize
CodeGenerator_map_schema_type(sw, schema, ref_, is_required, parent_name) ==
    map_schema_type_with(Ty("USize"), sw, schema, ref_, is_required, parent_name)

----------------------------------------------------------------------------
(* Prototyper *)

ModelPrototype(name, parent_name, schema) ==
    [name |-> name, parent_name |-> parent_name, schema |-> schema]

\* Vec built from a map's entries and sorted by key (keys are unique)
RECURSIVE SortedKeys(_)
SortedKeys(S) ==
    IF S = {} THEN <<>>
    ELSE LET m == CHOOSE x \in S : \A y \in S : StrLeq(x, y)
         IN  <<m>> \o SortedKeys(S \ {m})

\* HashMap::iter visits the keys in an order the program does not control
RECURSIVE IterationOrders(_)
IterationOrders(S) ==
    IF S = {} THEN {<<>>}
    ELSE UNION {{<<x>> \o rest : rest \in IterationOrders(S \ {x})} : x \in S}

\* the prototype lists of two successive steps, over their possible orders
Then(A, B) == {a \o b : a \in A, b \in B}

is_enum(schema) == is_string_enum(schema)

add_ref_prototype(name, parent_name, ref_) ==
    <<ModelPrototype(name, parent_name, ItemReference(ref_))>>

RECURSIVE add_schema_prototype(_, _, _)
RECURSIVE add_props_prototypes(_, _, _, _)
RECURSIVE add_props_prototypes_returning_early(_, _, _, _)

\* a Prototyper that does not return after the reference prototype: it goes
\* on into the items and the properties and pushes the schema as well
add_schema_prototype_without_return(name0, parent_name, schema) ==
    LET name == IF EndsWith(name0, INLINE_ITEM) /\ IsSome(schema_name(schema))
                THEN Unwrap(schema_name(schema))
                ELSE name0
        fromRef ==
            IF IsSome(schema.ref_)
            THEN {add_ref_prototype(name, parent_name, Unwrap(schema.ref_))}
            ELSE {<<>>}
        fromItems ==
            IF /\ IsSome(schema.items)
               /\ Unwrap(schema.items).kind = "Object"
               /\ is_object(Unwrap(schema.items).schema)
            THEN LET child_schema == Unwrap(schema.items).schema
                     child_name == IF IsSome(schema_name(child_schema))
                                   THEN Unwrap(schema_name(child_schema))
                                   ELSE name \o INLINE_ITEM
                 IN  add_schema_prototype(child_name, parent_name, child_schema)
            ELSE {<<>>}
        fromProps ==
            IF IsSome(schema.properties)
            THEN UNION {add_props_prototypes(name, Unwrap(schema.properties), order, 1) :
                            order \in IterationOrders(DOMAIN Unwrap(schema.properties))}
            ELSE {<<>>}
        self == <<ModelPrototype(name, parent_name, ItemObject(schema))>>
    IN  Then(Then(Then(fromRef, fromItems), fromProps), {self})

\* The set of prototype lists one call can push, one per iteration order of
\* the property maps it walks.
add_schema_prototype(name0, parent_name, schema) ==
    LET name == IF EndsWith(name0, INLINE_ITEM) /\ IsSome(schema_name(schema))
                THEN Unwrap(schema_name(schema))
                ELSE name0
    IN
    IF IsSome(schema.ref_)
    THEN {add_ref_prototype(name, parent_name, Unwrap(schema.ref_))}
    ELSE
    LET fromItems ==
            IF /\ IsSome(schema.items)
               /\ Unwrap(schema.items).kind = "Object"
               /\ is_object(Unwrap(schema.items).schema)
            THEN LET child_schema == Unwrap(schema.items).schema
                     child_name == IF IsSome(schema_name(child_schema))
                                   THEN Unwrap(schema_name(child_schema))
                                   ELSE name \o INLINE_ITEM
                 IN  add_schema_prototype(child_name, parent_name, child_schema)
            ELSE {<<>>}
        fromProps ==
            IF IsSome(schema.properties)
            THEN UNION {add_props_prototypes(name, Unwrap(schema.properties), order, 1) :
                            order \in IterationOrders(DOMAIN Unwrap(schema.properties))}
            ELSE {<<>>}
        self == <<ModelPrototype(name, parent_name, ItemObject(schema))>>
    IN  Then(Then(fromItems, fromProps), {self})

\* a loop over the properties that returns after the first property it
\* pushed prototypes for
add_props_prototypes_returning_early(name, props, order, i) ==
    IF i > Len(order) THEN {<<>>}
    ELSE
    LET item == props[order[i]]
        here == IF item.kind = "Object" /\ is_object(item.schema)
                                        /\ IsSome(item.schema.properties)
                THEN add_schema_prototype(name \o order[i] \o INLINE_ITEM, Some(name),
                                          item.schema)
                ELSE {<<>>}
    IN  IF here # {<<>>} THEN here
        ELSE add_props_prototypes_returning_early(name, props, order, i + 1)

\* the loop over the properties of one schema, in the given iteration order
add_props_prototypes(name, props, order, i) ==
    IF i > Len(order) THEN {<<>>}
    ELSE
    LET key == order[i]
        item == props[key]
        here ==
            IF item.kind = "Object"
            THEN LET prop_schema == item.schema
                     prop_name == IF IsSome(schema_name(prop_schema))
                                  THEN Unwrap(schema_name(prop_schema))
                                  ELSE name \o key \o INLINE_ITEM
                 IN  IF is_object(prop_schema) /\ IsSome(prop_schema.properties)
                     THEN add_schema_prototype(prop_name, Some(name), prop_schema)
                     ELSE IF is_array(prop_schema)
                     THEN IF /\ IsSome(prop_schema.items)
                             /\ Unwrap(prop_schema.items).kind = "Object"
                             /\ is_object(Unwrap(prop_schema.items).schema)
                          THEN add_schema_prototype(prop_name, Some(name),
                                                    Unwrap(prop_schema.items).schema)
                          ELSE {<<>>}
                     ELSE IF is_enum(prop_schema)
                     THEN add_schema_prototype(prop_name, Some(name), prop_schema)
                     ELSE {<<>>}
            ELSE {<<>>}
    IN  Then(here, add_props_prototypes(name, props, order, i + 1))

RECURSIVE add_definition_models_from(_, _, _)
add_definition_models_from(sw, names, i) ==
    IF i > Len(names) THEN {<<>>}
    ELSE LET schema == merge_all_of_schema(sw, Unwrap(sw.definitions)[names[i]])
         IN  Then(add_schema_prototype(names[i], None, schema),
                  add_definition_models_from(sw, names, i + 1))

add_definition_models(sw) ==
    IF IsSome(sw.definitions)
    THEN add_definition_models_from(sw, SortedKeys(DOMAIN Unwrap(sw.definitions)), 1)
    ELSE {<<>>}

\* the body shared by add_responses_models and handle_method for a
\* Response::Object: the response's description replaces the schema's
add_response_object(sw, name, response) ==
    IF IsSome(response.schema)
    THEN LET schema == [Unwrap(response.schema) EXCEPT
                            !.description = response.description]
         IN  add_schema_prototype(name, None, merge_all_of_schema(sw, schema))
    ELSE {<<>>}

RECURSIVE add_responses_models_from(_, _, _)
add_responses_models_from(sw, names, i) ==
    IF i > Len(names) THEN {<<>>}
    ELSE LET response == Unwrap(sw.responses)[names[i]]
             here == IF response.kind = "Object"
                     THEN add_response_object(sw, names[i], response)
                     ELSE {add_ref_prototype(names[i], None, response.ref)}
         IN  Then(here, add_responses_models_from(sw, names, i + 1))

add_responses_models(sw) ==
    IF IsSome(sw.responses)
    THEN add_responses_models_from(sw, SortedKeys(DOMAIN Unwrap(sw.responses)), 1)
    ELSE {<<>>}

\* the order in which add_paths_models invokes handle_method
METHODS == <<"get", "put", "post", "delete", "options", "head", "patch">>

PathItem(ops) == [kind |-> "Item", ops |-> ops]

PathExtension == [kind |-> "Extension"]

Operation(operation_id, responses, parameters) ==
    [operation_id |-> operation_id, responses |-> responses, parameters |-> parameters]

BodyParameter(name, schema) == [kind |-> "Body", name |-> name, schema |-> schema]

\* op.operation_id.as_deref().unwrap_or("InlineResponse")
operation_name(op) ==
    IF IsSome(op.operation_id) THEN Unwrap(op.operation_id)
    ELSE <<73, 110, 108, 105, 110, 101, 82, 101, 115, 112, 111, 110, 115, 101>>   \* "InlineResponse"

\* the loop over an operation's responses, in the given iteration order
RECURSIVE handle_method_responses(_, _, _, _)
handle_method_responses(sw, op, order, i) ==
    IF i > Len(order) THEN {<<>>}
    ELSE LET code == order[i]
             response == op.responses[code]
             name == operation_name(op) \o code \o <<82, 101, 115, 112, 111, 110, 115, 101>>
             here == IF response.kind = "Object"
                     THEN add_response_object(sw, name, response)
                     ELSE {<<>>}
         IN  Then(here, handle_method_responses(sw, op, order, i + 1))

\* the loop over an operation's parameters
RECURSIVE handle_method_parameters(_, _, _)
handle_method_parameters(sw, op, i) ==
    IF i > Len(op.parameters) THEN {<<>>}
    ELSE LET param == op.parameters[i]
             name == format_type_name(operation_name(op))
                         \o format_type_name(param.name) \o <<80, 97, 114, 97, 109>>
             here == IF param.kind = "Body"
                     THEN add_schema_prototype(name, None,
                                               merge_all_of_schema(sw, param.schema))
                     ELSE {<<>>}
         IN  Then(here, handle_method_parameters(sw, op, i + 1))

\* macro handle_method
handle_method(sw, path, method) ==
    IF IsSome(path.ops[method])
    THEN LET op == Unwrap(path.ops[method])
             fromResponses ==
                 UNION {handle_method_responses(sw, op, order, 1) :
                            order \in IterationOrders(DOMAIN op.responses)}
         IN  Then(fromResponses, handle_method_parameters(sw, op, 1))
    ELSE {<<>>}

RECURSIVE handle_methods_from(_, _, _)
handle_methods_from(sw, path, m) ==
    IF m > Len(METHODS) THEN {<<>>}
    ELSE Then(handle_method(sw, path, METHODS[m]), handle_methods_from(sw, path, m + 1))

RECURSIVE add_paths_models_from(_, _, _)
add_paths_models_from(sw, names, i) ==
    IF i > Len(names) THEN {<<>>}
    ELSE LET path == Unwrap(sw.paths)[names[i]]
             here == IF path.kind = "Item"
                     THEN handle_methods_from(sw, path, 1)
                     ELSE {<<>>}
         IN  Then(here, add_paths_models_from(sw, names, i + 1))

add_paths_models(sw) ==
    IF IsSome(sw.paths)
    THEN add_paths_models_from(sw, SortedKeys(DOMAIN Unwrap(sw.paths)), 1)
    ELSE {<<>>}

\* a Prototyper that walks the responses before the definitions
generate_prototypes_responses_first(sw) ==
    Then(Then(add_responses_models(sw), add_definition_models(sw)), add_paths_models(sw))

\* Prototyper::generate_prototypes: the lists it can return
generate_prototypes(sw) ==
    Then(Then(add_definition_models(sw), add_responses_models(sw)), add_paths_models(sw))

----------------------------------------------------------------------------
(* Driver: CodegenBackend *)

\* a comparator that forgets the kind of the prototypes
prototype_less_by_name_only(a, b) == StrLess(a.name, b.name)

\* the comparator of prototypes(): a sorts strictly before b
prototype_less(a, b) ==
    IF is_reference(a.schema) = is_reference(b.schema)
    THEN StrLess(a.name, b.name)
    ELSE ~is_reference(a.schema) /\ is_reference(b.schema)

\* slice::sort_by is stable: x goes before the first element it is less than
RECURSIVE InsertSorted(_, _)
InsertSorted(sorted, x) ==
    IF sorted = <<>> THEN <<x>>
    ELSE IF prototype_less(x, Head(sorted)) THEN <<x>> \o sorted
    ELSE <<Head(sorted)>> \o InsertSorted(Tail(sorted), x)

RECURSIVE SortPrototypes(_, _, _)
SortPrototypes(list, i, sorted) ==
    IF i > Len(list) THEN sorted
    ELSE SortPrototypes(list, i + 1, InsertSorted(sorted, list[i]))

\* CodegenBackend::prototypes: the sorted lists it can return
backend_prototypes(sw) == {SortPrototypes(ps, 1, <<>>) : ps \in generate_prototypes(sw)}

----------------------------------------------------------------------------
(* Rust backend: RustCodegen *)

Contains(seq, x) == \E i \in 1..Len(seq) : seq[i] = x

\* One declaration block of the output text.  ty is the right-hand side of an
\* alias, fields the fields of a struct, origin the prototype it came from.
Declaration(kind, type_name, ty, fields, origin) ==
    [kind |-> kind, name |-> type_name, ty |-> ty, fields |-> fields, origin |-> origin]

\* what a handler appends to the writer and to generated_models
Emitted(decls, names) == [decls |-> decls, names |-> names]

Nothing == Emitted(<<>>, <<>>)

\* the checks and the write shared by every `pub type` alias
write_alias(generated, type_name, ty, origin) ==
    IF type_name = TypeToString(ty) THEN Nothing
    ELSE IF Contains(generated, type_name) THEN Nothing
    ELSE Emitted(<<Declaration("alias", type_name, Some(ty), <<>>, origin)>>, <<type_name>>)

\* a generate_reference_model without the test of the target's type
generate_reference_model_any_type(sw, generated, ref_, model, origin) ==
    LET found == get_ref_schema(sw, ref_) IN
    IF IsNone(found) THEN Nothing
    ELSE
    LET ty == map_reference_type(sw, ref_, TRUE, Some(model.name)) IN
    IF IsNone(ty) THEN Nothing
    ELSE write_alias(generated, format_type_name(model.name), Unwrap(ty), origin)

generate_reference_model(sw, generated, ref_, model, origin) ==
    LET found == get_ref_schema(sw, ref_) IN
    IF IsNone(found) THEN Nothing
    ELSE
    LET schema == merge_all_of_schema(sw, Unwrap(found)) IN
    IF ~is_object(schema) THEN Nothing
    ELSE
    LET ty == map_reference_type(sw, ref_, TRUE, Some(model.name)) IN
    IF IsNone(ty) THEN Nothing
    ELSE write_alias(generated, format_type_name(model.name), Unwrap(ty), origin)

\* a field type that takes every property for a required one
field_type_ignoring_required(sw, type_name, prop, item, is_required) ==
    LET ty == IF item.kind = "Reference"
              THEN map_reference_type(sw, item.ref, TRUE, Some(prop))
              ELSE map_item_type(sw, item, TRUE, Some(type_name \o prop))
    IN  IF IsSome(ty) THEN Unwrap(ty) ELSE TyOption(Ty("Value"))

\* a field type whose fallback is wrapped only for a property that is not
\* required
field_type_plain_fallback(sw, type_name, prop, item, is_required) ==
    LET ty == IF item.kind = "Reference"
              THEN map_reference_type(sw, item.ref, is_required, Some(prop))
              ELSE map_item_type(sw, item, is_required, Some(type_name \o prop))
    IN  IF IsSome(ty) THEN Unwrap(ty)
        ELSE IF is_required THEN Ty("Value") ELSE TyOption(Ty("Value"))

\* the type of one struct field, with the fallback for an unmapped one
field_type(sw, type_name, prop, item, is_required) ==
    LET ty == IF item.kind = "Reference"
              THEN map_reference_type(sw, item.ref, is_required, Some(prop))
              ELSE map_item_type(sw, item, is_required, Some(type_name \o prop))
    IN  IF IsSome(ty) THEN Unwrap(ty) ELSE TyOption(Ty("Value"))

generate_props_schema(sw, generated, name, schema, origin) ==
    LET props == Unwrap(schema.properties)
        type_name == format_type_name(name)
        keys == SortedKeys(DOMAIN props)
        fields == [i \in 1..Len(keys) |->
                      [prop |-> keys[i],
                       ty |-> field_type(sw, type_name, keys[i], props[keys[i]],
                                         Contains(schema.required, keys[i]))]]
    IN  Emitted(<<Declaration("struct", type_name, None, fields, origin)>>, <<type_name>>)

\* generate_array_schema mapping the items as an optional value
generate_array_schema_optional_items(sw, generated, name, schema, origin) ==
    IF IsNone(schema.items) THEN Nothing
    ELSE
    LET ty == map_item_type(sw, Unwrap(schema.items), FALSE, Some(name)) IN
    IF IsNone(ty) THEN Nothing
    ELSE write_alias(generated, format_type_name(name), TyVec(Unwrap(ty)), origin)

generate_array_schema(sw, generated, name, schema, origin) ==
    IF IsNone(schema.items) THEN Nothing
    ELSE
    LET ty == map_item_type(sw, Unwrap(schema.items), TRUE, Some(name)) IN
    IF IsNone(ty) THEN Nothing
    ELSE write_alias(generated, format_type_name(name), TyVec(Unwrap(ty)), origin)

generate_enum_schema(sw, generated, name, schema, origin) ==
    LET type_name == format_type_name(name)
    IN  Emitted(<<Declaration("enum", type_name, None, <<>>, origin)>>, <<type_name>>)

\* a generate_schema that writes an alias of Value for a schema it cannot map
generate_schema_with_fallback(sw, generated, name0, parent_name, schema, origin) ==
    LET name == IF name0 = <<>>
                THEN IF IsSome(schema_name(schema)) THEN Unwrap(schema_name(schema))
                     ELSE IF IsSome(parent_name) THEN Unwrap(parent_name) \o INLINE_ITEM
                     ELSE name0
                ELSE name0
        type_name == format_type_name(name)
    IN
    IF IsSome(schema.properties)
    THEN generate_props_schema(sw, generated, name, schema, origin)
    ELSE IF is_array(schema)
    THEN generate_array_schema(sw, generated, name, schema, origin)
    ELSE IF is_string_enum(schema)
    THEN generate_enum_schema(sw, generated, name, schema, origin)
    ELSE IF IsSome(schema.ref_) THEN Nothing
    ELSE LET ty == map_schema_type(sw, schema, None, TRUE, Some(name)) IN
         write_alias(generated, type_name,
                     IF IsSome(ty) THEN Unwrap(ty) ELSE Ty("Value"), origin)

generate_schema(sw, generated, name0, parent_name, schema, origin) ==
    LET name == IF name0 = <<>>
                THEN IF IsSome(schema_name(schema)) THEN Unwrap(schema_name(schema))
                     ELSE IF IsSome(parent_name) THEN Unwrap(parent_name) \o INLINE_ITEM
                     ELSE name0
                ELSE name0
        type_name == format_type_name(name)
    IN
    IF IsSome(schema.properties)
    THEN generate_props_schema(sw, generated, name, schema, origin)
    ELSE IF is_array(schema)
    THEN generate_array_schema(sw, generated, name, schema, origin)
    ELSE IF is_string_enum(schema)
    THEN generate_enum_schema(sw, generated, name, schema, origin)
    ELSE IF IsSome(schema.ref_) THEN Nothing
    ELSE LET ty == map_schema_type(sw, schema, None, TRUE, Some(name)) IN
         IF IsSome(ty) THEN write_alias(generated, type_name, Unwrap(ty), origin)
         ELSE Nothing

generate_object_model(sw, generated, schema, model, origin) ==
    generate_schema(sw, generated, model.name, model.parent_name,
                    merge_all_of_schema(sw, schema), origin)

----------------------------------------------------------------------------
(* Documents *)

\* the largest number of definitions in a document
MaxDefs == 2

\* "A", "B", "a": "a" and "A" format to the same type name
DefinitionNames == {<<65>>, <<66>>, <<97>>}

\* the definitions a reference of the catalogue can name: "A", "B"
ReferencedNames == {<<65>>, <<66>>}

DefinitionRef(name) == DEFINITIONS_REF \o name

ResponseRef(name) == RESPONSES_REF \o name

TypedSchema(t) == [DefaultSchema EXCEPT !.type_ = Some(t)]

\* {type: object, properties: {x: string, y: integer}, required: [x]}
RecordSchema ==
    [DefaultSchema EXCEPT
        !.type_ = Some("object"),
        !.properties = Some([k \in {<<120>>, <<121>>} |->
                                IF k = <<120>> THEN ItemObject(TypedSchema("string"))
                                ELSE ItemObject(TypedSchema("integer"))]),
        !.required = <<<<120>>>>]

\* {properties: {x: {type: number}}}: properties without a type tag
UntypedRecordSchema ==
    [DefaultSchema EXCEPT
        !.properties = Some([k \in {<<120>>} |-> ItemObject(TypedSchema("number"))])]

\* {type: object, properties: {x: {type: object, properties: {y: boolean}},
\*                             y: {$ref: D}}}
NestedSchema(D) ==
    [DefaultSchema EXCEPT
        !.type_ = Some("object"),
        !.properties = Some([k \in {<<120>>, <<121>>} |->
            IF k = <<120>>
            THEN ItemObject([DefaultSchema EXCEPT
                    !.type_ = Some("object"),
                    !.properties = Some([j \in {<<121>>} |->
                                            ItemObject(TypedSchema("boolean"))])])
            ELSE ItemReference(DefinitionRef(D))])]

\* {type: array, items: {$ref: D}}
ArraySchema(D) ==
    [DefaultSchema EXCEPT !.type_ = Some("array"),
                          !.items = Some(ItemReference(DefinitionRef(D)))]

\* {$ref: D}
ReferenceSchema(D) == [DefaultSchema EXCEPT !.ref_ = Some(DefinitionRef(D))]

\* {type: object, properties: {x: {type: number}}, required: [x]}: a
\* required property whose type does not map
RequiredUnmappedSchema ==
    [DefaultSchema EXCEPT
        !.type_ = Some("object"),
        !.properties = Some([k \in {<<120>>} |-> ItemObject(TypedSchema("number"))]),
        !.required = <<<<120>>>>]

\* {type: object, additionalProperties: {type: number}}: no mappable type
UnmappedMapSchema ==
    [DefaultSchema EXCEPT !.type_ = Some("object"),
                          !.additional_properties = Some(ItemObject(TypedSchema("number")))]

\* {type: string, enum: [v]}
EnumSchema == [DefaultSchema EXCEPT !.type_ = Some("string"), !.enum_ = <<"v">>]

\* {allOf: [{$ref: D}, {properties: {y: string}, required: [y]}]}
AllOfSchema(D) ==
    [DefaultSchema EXCEPT
        !.all_of = <<ReferenceSchema(D),
                     [DefaultSchema EXCEPT
                        !.properties = Some([k \in {<<121>>} |->
                                                ItemObject(TypedSchema("string"))]),
                        !.required = <<<<121>>>>]>>]

DefinitionSchemas ==
    {RecordSchema, UntypedRecordSchema, RequiredUnmappedSchema, UnmappedMapSchema,
     EnumSchema, TypedSchema("object"), TypedSchema("integer"), TypedSchema("number")}
    \cup {NestedSchema(D) : D \in ReferencedNames}
    \cup {ArraySchema(D) : D \in ReferencedNames}
    \cup {ReferenceSchema(D) : D \in ReferencedNames}
    \cup {AllOfSchema(D) : D \in ReferencedNames}

\* the definitions tables: at most MaxDefs named schemas, or no table
DefinitionTables ==
    {None} \cup
    {Some(defs) : defs \in UNION {[names -> DefinitionSchemas] :
                    names \in {N \in SUBSET DefinitionNames :
                                   Cardinality(N) >= 1 /\ Cardinality(N) <= MaxDefs}}}

\* the responses tables: a response with an inline record, an alias of a
\* definition, an alias of another response, a response keyed by the
\* reference "#/responses/A" that is an alias of itself, and the responses
\* "R" and "S", aliases of the definitions "A" and "B"
ResponseTables ==
    {None,
     Some([k \in {<<82>>, <<83>>} |->
            IF k = <<82>> THEN ResponseReference(DefinitionRef(<<65>>))
            ELSE ResponseReference(DefinitionRef(<<66>>))]),
     Some([k \in {ResponseRef(<<65>>)} |-> ResponseReference(ResponseRef(<<65>>))]),
     Some([k \in {<<65>>} |-> ResponseObject(Some("d"), Some(RecordSchema))]),
     Some([k \in {<<66>>} |-> ResponseReference(DefinitionRef(<<65>>))]),
     Some([k \in {<<65>>, <<66>>} |->
            IF k = <<65>> THEN ResponseReference(ResponseRef(<<66>>))
            ELSE ResponseObject(None, Some(TypedSchema("object")))])}

NoOperations == [m \in {METHODS[i] : i \in 1..Len(METHODS)} |-> None]

\* the paths tables: one path "/p" whose get operation "op" has responses
\* 200 (an inline record) and 404 (no schema) and a body parameter "b"
PathsTables ==
    {None,
     Some([k \in {<<47, 112>>} |->
        PathItem([NoOperations EXCEPT !["get"] =
            Some(Operation(Some(<<111, 112>>),
                           [code \in {<<50, 48, 48>>, <<52, 48, 52>>} |->
                                IF code = <<50, 48, 48>>
                                THEN ResponseObject(Some("d"), Some(RecordSchema))
                                ELSE ResponseObject(None, None)],
                           <<BodyParameter(<<98>>, ArraySchema(<<65>>))>>))])])}

Documents ==
    {[definitions |-> d, responses |-> r, paths |-> p] :
        d \in DefinitionTables, r \in ResponseTables, p \in PathsTables}

----------------------------------------------------------------------------
(* One run of CodegenBackend::generate with the Rust backend *)

NoCall == [fn |-> "none"]

Init ==
    /\ swagger \in Documents
    /\ pc = "start"
    /\ prototypes = <<>>
    /\ idx = 1
    /\ generated_models = <<>>
    /\ output = <<>>
    /\ call = NoCall
    /\ prototyper_calls = 0
    /\ consumed = <<>>

\* generate_helpers: the two deserialize helpers are written first
GenerateHelpers ==
    /\ pc = "start"
    /\ pc' = "helpers"
    /\ output' = Append(output, Declaration("helpers", <<>>, None, <<>>, 0))
    /\ UNCHANGED <<swagger, prototypes, idx, generated_models, call, prototyper_calls, consumed>>

\* generate_models, up to its loop: self.prototypes(swagger)
Prototypes ==
    /\ pc = "helpers"
    /\ \E ps \in backend_prototypes(swagger) : prototypes' = ps
    /\ idx' = 1
    /\ pc' = "models"
    /\ prototyper_calls' = prototyper_calls + 1
    /\ UNCHANGED <<swagger, generated_models, output, call, consumed>>

\* what generate_model appends for the prototype at position i
generate_model(sw, generated, model, i) ==
    IF is_reference(model.schema)
    THEN generate_reference_model(sw, generated, model.schema.ref, model, i)
    ELSE generate_object_model(sw, generated, model.schema.schema, model, i)

\* generate_reference_model starts with get_ref_schema(ref_): on a response
\* alias that leads back to itself the recursion never returns
never_returns(sw, model) ==
    is_reference(model.schema) /\ get_ref_schema(sw, model.schema.ref) = Diverges

\* one iteration of the loop of generate_models
GenerateModel(kind) ==
    /\ pc = "models"
    /\ idx <= Len(prototypes)
    /\ prototypes[idx].schema.kind = kind
    /\ ~never_returns(swagger, prototypes[idx])
    /\ LET emitted == generate_model(swagger, generated_models, prototypes[idx], idx)
       IN  /\ output' = output \o emitted.decls
           /\ generated_models' = generated_models \o emitted.names
    /\ idx' = idx + 1
    /\ consumed' = Append(consumed, prototypes[idx])
    /\ UNCHANGED <<swagger, pc, prototypes, call, prototyper_calls>>

GenerateReferenceModel == GenerateModel("Reference")

GenerateObjectModel == GenerateModel("Object")

\* the iteration whose get_ref_schema recurses without end: the stack
\* overflows or the call spins, and generate returns nothing
GetRefSchemaDiverges ==
    /\ pc = "models"
    /\ idx <= Len(prototypes)
    /\ never_returns(swagger, prototypes[idx])
    /\ pc' = "diverged"
    /\ UNCHANGED <<swagger, prototypes, idx, generated_models, output, call,
                   prototyper_calls, consumed>>

\* the loop of generate_models is over: generate returns Ok(())
Finish ==
    /\ pc = "models"
    /\ idx > Len(prototypes)
    /\ pc' = "done"
    /\ UNCHANGED <<swagger, prototypes, idx, generated_models, output, call, prototyper_calls, consumed>>

Next ==
    \/ GenerateHelpers
    \/ Prototypes
    \/ GenerateReferenceModel
    \/ GenerateObjectModel
    \/ GetRefSchemaDiverges
    \/ Finish

Spec == Init /\ [][Next]_vars

\* the documents of the runs followed to their end: at most one definition
LiveDocuments ==
    {doc \in Documents :
        IsNone(doc.definitions) \/ DOMAIN Unwrap(doc.definitions) = {<<65>>}}

InitLive ==
    /\ swagger \in LiveDocuments
    /\ pc = "start"
    /\ prototypes = <<>>
    /\ idx = 1
    /\ generated_models = <<>>
    /\ output = <<>>
    /\ call = NoCall
    /\ prototyper_calls = 0
    /\ consumed = <<>>

\* the run is sequential and nothing suspends it: a step that can be taken
\* is taken
SpecLive == InitLive /\ [][Next]_vars /\ WF_vars(Next)

----------------------------------------------------------------------------
(* Properties of a run *)

IsDeclaration(d) == d.kind \in {"struct", "enum", "alias"}

DeclarationIndices == {k \in 1..Len(output) : IsDeclaration(output[k])}

\* C1: no two declarations written to the output (record, enumeration or
\* alias) have the same formatted type name.
C1_NoDuplicateDeclarations ==
    \A i, j \in DeclarationIndices : i # j => output[i].name # output[j].name

\* C2: whenever an alias is written for a Reference-kind prototype, a
\* declaration of the type named on its right-hand side was written earlier
\* in the run.
C2_AliasAfterTarget ==
    \A k \in DeclarationIndices :
        (output[k].kind = "alias" /\ is_reference(prototypes[output[k].origin].schema))
            => \E j \in DeclarationIndices :
                    j < k /\ output[j].name = TypeToString(Unwrap(output[k].ty))

\* C3: in the sequence of prototypes dispatched to generate_model (the list,
\* walked by idx from its first element), every Object-kind prototype comes
\* before every Reference-kind prototype, and within each kind the names
\* ascend.
C3_DispatchOrder ==
    pc \in {"models", "done"} =>
        \A i, j \in 1..Len(prototypes) :
            i < j =>
                /\ ~(is_reference(prototypes[i].schema) /\ ~is_reference(prototypes[j].schema))
                /\ is_reference(prototypes[i].schema) = is_reference(prototypes[j].schema)
                        => StrLeq(prototypes[i].name, prototypes[j].name)

\* C3 witness: a finished run that dispatched an Object-kind and a
\* Reference-kind prototype, and whose list the Prototyper returned in
\* another order.
C3_Witness ==
    /\ pc = "done"
    /\ \E i, j \in 1..Len(prototypes) :
            /\ i < j
            /\ ~is_reference(prototypes[i].schema)
            /\ is_reference(prototypes[j].schema)
    /\ prototypes \notin generate_prototypes(swagger)

\* the definitions A of type array, with no $ref, allOf or properties of
\* their own, whose items reference a definition D; with the referenced name
ArrayDefinitions ==
    IF IsNone(swagger.definitions) THEN {}
    ELSE LET defs == Unwrap(swagger.definitions) IN
         {<<A, D>> \in (DOMAIN defs) \X (DOMAIN defs) :
            /\ is_array(defs[A])
            /\ IsNone(defs[A].ref_) /\ IsNone(defs[A].properties) /\ defs[A].all_of = <<>>
            /\ defs[A].items = Some(ItemReference(DefinitionRef(D)))}

\* the alias A = Vec<D> is at position k of the output
IsArrayAlias(k, A, D) ==
    /\ output[k].kind = "alias"
    /\ output[k].name = format_type_name(A)
    /\ output[k].ty = Some(TyVec(TyCustom(D)))
    /\ prototypes[output[k].origin].name = A

\* the record written for the prototype named D is at position j of the output
IsRecordOf(j, D) ==
    /\ output[j].kind = "struct"
    /\ output[j].name = format_type_name(D)
    /\ prototypes[output[j].origin].name = D

\* C4 as claimed: for every definition A of type array whose items reference
\* a definition D that has properties, the finished run has written the alias
\* A = Vec<D>, after D's record.
C4_ArrayAliasAfterRecord ==
    pc = "done" =>
        \A pair \in ArrayDefinitions :
            IsSome(Unwrap(swagger.definitions)[pair[2]].properties) =>
                \E k \in DeclarationIndices :
                    /\ IsArrayAlias(k, pair[1], pair[2])
                    /\ \E j \in DeclarationIndices : j < k /\ IsRecordOf(j, pair[2])

\* C4 amended: for every definition A of type array (no $ref, allOf or
\* properties of its own) whose items reference a definition D of type
\* object, the finished run has written the alias A = Vec<D>, unless a
\* declaration with A's formatted name was written before A's turn; and the
\* alias follows the record written for D exactly when D's name sorts before
\* A's.
C4_ArrayAliasInNameOrder ==
    pc = "done" =>
        \A pair \in ArrayDefinitions :
            is_object(Unwrap(swagger.definitions)[pair[2]]) =>
                /\ \/ \E k \in DeclarationIndices : IsArrayAlias(k, pair[1], pair[2])
                   \/ \E k \in DeclarationIndices :
                        /\ output[k].name = format_type_name(pair[1])
                        /\ \A i \in 1..Len(prototypes) :
                                (prototypes[i].name = pair[1]
                                 /\ ~is_reference(prototypes[i].schema))
                                    => output[k].origin < i
                /\ \A k, j \in DeclarationIndices :
                        (IsArrayAlias(k, pair[1], pair[2]) /\ IsRecordOf(j, pair[2]))
                            => (j < k <=> StrLess(pair[2], pair[1]))

\* C4 witness: a finished run in which the alias A = Vec<D> was written
\* before the record of D.
C4_Witness ==
    /\ pc = "done"
    /\ \E pair \in ArrayDefinitions : \E k, j \in DeclarationIndices :
            /\ IsArrayAlias(k, pair[1], pair[2])
            /\ IsRecordOf(j, pair[2])
            /\ k < j

----------------------------------------------------------------------------
(* Calls of get_ref_schema *)

\* the largest number of entries of a responses table
MaxResponses == 2

\* a call of a function and what it returned
Call(fn, arg, ref_, is_required, parent_name, result) ==
    [fn |-> fn, arg |-> arg, ref_ |-> ref_, is_required |-> is_required,
     parent_name |-> parent_name, result |-> result]

\* response names "A" and "B", and the keys "#/responses/A" and
\* "#/responses/B": a key of the responses map is any string of the document
ResponseNames == {<<65>>, <<66>>, ResponseRef(<<65>>), ResponseRef(<<66>>)}

\* a response with an inline schema, one without, and aliases of the
\* responses "A" and "B" and of the definition "A"
ResponseValues ==
    {ResponseObject(Some("d"), Some(TypedSchema("object"))),
     ResponseObject(None, None),
     ResponseReference(ResponseRef(<<65>>)),
     ResponseReference(ResponseRef(<<66>>)),
     ResponseReference(DefinitionRef(<<65>>))}

ResolveDocuments ==
    {[definitions |-> d, responses |-> r, paths |-> None] :
        d \in {None, Some([k \in {<<65>>} |-> RecordSchema])},
        r \in {None} \cup
              {Some(t) : t \in UNION {[names -> ResponseValues] :
                    names \in {N \in SUBSET ResponseNames :
                                   Cardinality(N) <= MaxResponses}}}}

\* references into both namespaces, to known and unknown names, and a
\* string that is in neither namespace
ResolveRefs ==
    {ResponseRef(<<65>>), ResponseRef(<<66>>), ResponseRef(<<67>>),
     DefinitionRef(<<65>>), DefinitionRef(<<66>>), <<65>>}

InitResolve ==
    /\ swagger \in ResolveDocuments
    /\ pc = "start"
    /\ prototypes = <<>>
    /\ idx = 1
    /\ generated_models = <<>>
    /\ output = <<>>
    /\ call = NoCall
    /\ prototyper_calls = 0
    /\ consumed = <<>>

GetRefSchema ==
    /\ pc = "start"
    /\ \E ref_ \in ResolveRefs :
            call' = Call("get_ref_schema", ref_, None, TRUE, None,
                         get_ref_schema(swagger, ref_))
    /\ pc' = "returned"
    /\ UNCHANGED <<swagger, prototypes, idx, generated_models, output, prototyper_calls, consumed>>

NextResolve == GetRefSchema

SpecResolve == InitResolve /\ [][NextResolve]_vars

\* the response table of the document, empty when the document has none
ResponseTable == IF IsSome(swagger.responses) THEN Unwrap(swagger.responses) ELSE EmptyItems

DefinitionTable ==
    IF IsSome(swagger.definitions) THEN Unwrap(swagger.definitions) ELSE EmptyItems

\* C5: get_ref_schema on a responses-namespace reference to a response named
\* Foo, where Foo is an alias of the response Bar and Bar carries an inline
\* schema, returns Bar's inline schema; on a reference whose name is in
\* neither table (or whose table is missing) it returns absent.
C5_AliasChainResolves ==
    call.fn = "get_ref_schema" =>
        /\ \A Foo, Bar \in DOMAIN ResponseTable :
                (/\ call.arg = ResponseRef(Foo)
                 /\ ResponseTable[Foo] = ResponseReference(ResponseRef(Bar))
                 /\ ResponseTable[Bar].kind = "Object"
                 /\ IsSome(ResponseTable[Bar].schema))
                    => call.result = ResponseTable[Bar].schema
        /\ (/\ {call.arg, trim_reference(call.arg)} \cap DOMAIN ResponseTable = {}
            /\ {call.arg, trim_reference(call.arg)} \cap DOMAIN DefinitionTable = {})
                    => call.result = None

----------------------------------------------------------------------------
(* Calls of merge_all_of_schema *)

\* the longest allOf list of a merged schema
MaxAllOf == 2

\* {title: T1, type: object, properties: {x: string}, required: [x]}
ComponentT1 ==
    [DefaultSchema EXCEPT
        !.title = Some(<<84, 49>>),
        !.type_ = Some("object"),
        !.properties = Some([k \in {<<120>>} |-> ItemObject(TypedSchema("string"))]),
        !.required = <<<<120>>>>]

\* {title: T2, format: int32, description: d2, properties: {x: integer,
\*  y: string}, required: [y], enum: [v2]}
ComponentT2 ==
    [DefaultSchema EXCEPT
        !.title = Some(<<84, 50>>),
        !.format = Some(<<105, 110, 116, 51, 50>>),
        !.description = Some("d2"),
        !.properties = Some([k \in {<<120>>, <<121>>} |->
                                IF k = <<120>> THEN ItemObject(TypedSchema("integer"))
                                ELSE ItemObject(TypedSchema("string"))]),
        !.required = <<<<121>>>>,
        !.enum_ = <<"v2">>]

\* {$ref: "#/definitions/A", title: T3, properties: {z: boolean}}: the
\* fields next to the reference count only when it does not resolve
ComponentRef ==
    [DefaultSchema EXCEPT
        !.ref_ = Some(DefinitionRef(<<65>>)),
        !.title = Some(<<84, 51>>),
        !.properties = Some([k \in {<<122>>} |-> ItemObject(TypedSchema("boolean"))])]

\* {type: string, format: binary, description: d1, enum: [v1]}
ComponentEnum ==
    [DefaultSchema EXCEPT
        !.type_ = Some("string"),
        !.format = Some(<<98, 105, 110, 97, 114, 121>>),
        !.description = Some("d1"),
        !.enum_ = <<"v1">>]

MergeComponents ==
    {ComponentT1, ComponentT2, ComponentRef, ComponentEnum, DefaultSchema}

RECURSIVE ComponentLists(_)
ComponentLists(n) ==
    IF n = 0 THEN {<<>>}
    ELSE LET shorter == ComponentLists(n - 1) IN
         shorter \cup {Append(l, c) : l \in {m \in shorter : Len(m) = n - 1},
                                      c \in MergeComponents}

\* the schema carrying the allOf list: with and without a title and a
\* description of its own, and with and without fields the merge drops
OuterSchemas ==
    {[DefaultSchema EXCEPT !.title = t, !.description = d, !.type_ = o[1],
                           !.required = o[2], !.enum_ = o[3], !.properties = o[4],
                           !.items = o[5], !.additional_properties = o[6],
                           !.all_of = l] :
        t \in {None, Some(<<84, 48>>)},
        d \in {None, Some("d0")},
        o \in {<<None, <<>>, <<>>, None, None, None>>,
               <<Some("object"), <<<<119>>>>, <<"v0">>,
                 Some([k \in {<<119>>} |-> ItemObject(TypedSchema("boolean"))]),
                 Some(ItemObject(TypedSchema("boolean"))),
                 Some(ItemObject(TypedSchema("boolean")))>>},
        l \in ComponentLists(MaxAllOf)}

\* the definition "A" is a record, a titled string, or is not defined
MergeDocuments ==
    {[definitions |-> d, responses |-> None, paths |-> None] :
        d \in {None,
               Some([k \in {<<65>>} |-> RecordSchema]),
               Some([k \in {<<65>>} |->
                        [DefaultSchema EXCEPT !.title = Some(<<84, 65>>),
                                              !.type_ = Some("string"),
                                              !.enum_ = <<"vA">>]])}}

InitMerge ==
    /\ swagger \in MergeDocuments
    /\ pc = "start"
    /\ prototypes = <<>>
    /\ idx = 1
    /\ generated_models = <<>>
    /\ output = <<>>
    /\ call = NoCall
    /\ prototyper_calls = 0
    /\ consumed = <<>>

MergeAllOfSchema ==
    /\ pc = "start"
    /\ \E schema \in OuterSchemas :
            call' = Call("merge_all_of_schema", schema, None, TRUE, None,
                         merge_all_of_schema(swagger, schema))
    /\ pc' = "returned"
    /\ UNCHANGED <<swagger, prototypes, idx, generated_models, output, prototyper_calls, consumed>>

\* the merge of a schema that is the result of a merge: the Prototyper
\* merges a definition before it registers it, generate_object_model merges
\* the registered schema again
MergeAllOfSchemaAgain ==
    /\ pc = "returned"
    /\ call' = Call("merge_all_of_schema", call.result, None, TRUE, None,
                    merge_all_of_schema(swagger, call.result))
    /\ pc' = "merged again"
    /\ UNCHANGED <<swagger, prototypes, idx, generated_models, output, prototyper_calls,
                   consumed>>

NextMerge == MergeAllOfSchema \/ MergeAllOfSchemaAgain

SpecMerge == InitMerge /\ [][NextMerge]_vars

\* a call of merge_all_of_schema on a schema with a non-empty allOf list
IsMergeCall == call.fn = "merge_all_of_schema" /\ Len(call.arg.all_of) > 0

\* the components of the merged schema, a resolving reference replaced by
\* the schema it names
Components ==
    [i \in 1..Len(call.arg.all_of) |->
        LET c == call.arg.all_of[i]
            target == IF IsSome(c.ref_) THEN get_ref_schema(swagger, Unwrap(c.ref_))
                      ELSE None
        IN  IF IsSome(target) THEN Unwrap(target) ELSE c]

PropertyKeys(schema) ==
    IF IsSome(schema.properties) THEN DOMAIN Unwrap(schema.properties) ELSE {}

\* the components declaring the property k
Declaring(k) == {i \in DOMAIN Components : k \in PropertyKeys(Components[i])}

Latest(S) == CHOOSE i \in S : \A j \in S : j <= i

Earliest(S) == CHOOSE i \in S : \A j \in S : i <= j

\* C6: the property map of the merge of a non-empty allOf list has as keys
\* the union of the resolved components' property keys, and maps a key to
\* the value of the latest component declaring it.
C6_PropertiesUnionLastWins ==
    IsMergeCall =>
        /\ IsSome(call.result.properties)
        /\ DOMAIN Unwrap(call.result.properties)
                = UNION {PropertyKeys(Components[i]) : i \in DOMAIN Components}
        /\ \A k \in DOMAIN Unwrap(call.result.properties) :
                Unwrap(call.result.properties)[k]
                    = Unwrap(Components[Latest(Declaring(k))].properties)[k]

\* two components declare one key with different values, a third key comes
\* from one component only, and the merge has returned
C6_Witness ==
    /\ IsMergeCall
    /\ \E k \in DOMAIN Unwrap(call.result.properties) :
            /\ Cardinality(Declaring(k)) = 2
            /\ Unwrap(Components[Earliest(Declaring(k))].properties)[k]
                    # Unwrap(Components[Latest(Declaring(k))].properties)[k]
    /\ \E k \in DOMAIN Unwrap(call.result.properties) : Cardinality(Declaring(k)) = 1

ScalarFields == {"format", "title", "description", "type_"}

\* the components that have the scalar field f set
Setting(f) == {i \in DOMAIN Components : IsSome(Components[i][f])}

\* what the accumulator holds for f before the fold
OuterValue(f) == IF f \in {"title", "description"} THEN call.arg[f] ELSE None

\* C7: each scalar field of the merge is the outer schema's own title or
\* description when it has one, else the value of the first component that
\* has the field set, else absent; a later component never overwrites it.
C7_ScalarsFirstSetWins ==
    IsMergeCall =>
        \A f \in ScalarFields :
            call.result[f] =
                IF IsSome(OuterValue(f)) THEN OuterValue(f)
                ELSE IF Setting(f) # {} THEN Components[Earliest(Setting(f))][f]
                ELSE None

\* two components set the title to different values, the outer schema has
\* none, and the merge has returned the first one's
C7_Witness ==
    /\ IsMergeCall
    /\ Cardinality(Setting("title")) = 2
    /\ Components[1].title # Components[2].title
    /\ IsNone(call.arg.title)
    /\ call.result.title = Components[1].title

ListFields == {"required", "enum_"}

\* the components supplying a non-empty list for f
Supplying(f) == {i \in DOMAIN Components : Len(Components[i][f]) > 0}

\* C8: the required list, and independently the enum list, of the merge is
\* exactly the list of the first component supplying a non-empty one, and
\* empty when no component supplies one.
C8_ListsFromFirstSupplier ==
    IsMergeCall =>
        \A f \in ListFields :
            call.result[f] =
                IF Supplying(f) # {} THEN Components[Earliest(Supplying(f))][f]
                ELSE <<>>

\* two components supply different required lists, and the enum list comes
\* from another component than the required list
C8_Witness ==
    /\ IsMergeCall
    /\ Cardinality(Supplying("required")) = 2
    /\ Components[1].required # Components[2].required
    /\ call.result.required = Components[1].required
    /\ Supplying("enum_") # {}

----------------------------------------------------------------------------
(* Calls of the Type Resolver *)

\* the deepest nesting of containers in a mapped schema
MaxDepth == 2

\* {type: integer, format: f}
FormatSchema(t, f) == [DefaultSchema EXCEPT !.type_ = Some(t), !.format = Some(f)]

\* {type: object, additionalProperties: {type: integer},
\*  properties: {x: {type: string}}}
MapWithPropertiesSchema ==
    [DefaultSchema EXCEPT
        !.type_ = Some("object"),
        !.additional_properties = Some(ItemObject(TypedSchema("integer"))),
        !.properties = Some([k \in {<<120>>} |-> ItemObject(TypedSchema("string"))])]

\* schemas without a container: every arm of the match on the type tag
LeafSchemas ==
    {DefaultSchema, RecordSchema, UntypedRecordSchema, EnumSchema,
     TypedSchema("integer"), TypedSchema("string"), TypedSchema("boolean"),
     TypedSchema("number"), TypedSchema("object"), TypedSchema("array"),
     TypedSchema("null"),
     FormatSchema("integer", <<105, 110, 116, 54, 52>>),                \* int64
     FormatSchema("integer", <<108, 111, 110, 103>>),                   \* long
     FormatSchema("string", <<66, 105, 110, 97, 114, 121>>),            \* Binary
     FormatSchema("number", <<100, 111, 117, 98, 108, 101>>),           \* double
     FormatSchema("number", <<105, 110, 116, 51, 50>>),                 \* int32
     [RecordSchema EXCEPT !.title = Some(<<84, 49>>)],
     MapWithPropertiesSchema,
     [MapWithPropertiesSchema EXCEPT !.title = Some(<<84, 49>>)]}

\* references to the definitions "A" and "B" and to the response "R", the
\* last one written as the key of the responses table
TypeRefs == {DefinitionRef(<<65>>), DefinitionRef(<<66>>), ResponseRef(<<82>>)}

RECURSIVE TypeItems(_)
RECURSIVE TypeSchemas(_)
\* the schemas nesting at most n containers
TypeSchemas(n) ==
    IF n = 0 THEN LeafSchemas
    ELSE LeafSchemas
         \cup {[DefaultSchema EXCEPT !.type_ = Some("array"), !.items = Some(i)] :
                    i \in TypeItems(n - 1)}
         \cup {[DefaultSchema EXCEPT !.type_ = Some("object"),
                                     !.additional_properties = Some(i)] :
                    i \in TypeItems(n - 1)}
         \cup {[DefaultSchema EXCEPT !.type_ = Some("object"), !.items = Some(i)] :
                    i \in TypeItems(n - 1)}

TypeItems(n) ==
    {ItemObject(s) : s \in TypeSchemas(n)} \cup {ItemReference(r) : r \in TypeRefs}

\* {type: array, items: {type: array, items: {type: string}}}
ArrayOfArrays ==
    [DefaultSchema EXCEPT
        !.type_ = Some("array"),
        !.items = Some(ItemObject([DefaultSchema EXCEPT
                        !.type_ = Some("array"),
                        !.items = Some(ItemObject(TypedSchema("string")))]))]

\* the definition "A" is a record, an array of "B", an integer or a
\* reference; "B" is not defined; the response "#/responses/R" is an alias
\* of the definition "A" or carries an inline schema
TypeDocuments ==
    {[definitions |-> Some([k \in {<<65>>} |-> a]), responses |-> r, paths |-> None] :
        a \in {RecordSchema, ArraySchema(<<66>>), TypedSchema("integer"),
               ReferenceSchema(<<66>>)},
        r \in {None,
               Some([k \in {ResponseRef(<<82>>)} |->
                        ResponseReference(DefinitionRef(<<65>>))]),
               Some([k \in {ResponseRef(<<82>>)} |->
                        ResponseObject(Some("d"), Some(ArrayOfArrays))])}}

\* the parent names of a call: none, or "P"
ParentNames == {None, Some(<<80>>)}

InitType ==
    /\ swagger \in TypeDocuments
    /\ pc = "start"
    /\ prototypes = <<>>
    /\ idx = 1
    /\ generated_models = <<>>
    /\ output = <<>>
    /\ call = NoCall
    /\ prototyper_calls = 0
    /\ consumed = <<>>

MapSchemaType ==
    /\ pc = "start"
    /\ \E schema \in TypeSchemas(MaxDepth), ref_ \in {None, Some(<<65>>)},
          is_required \in BOOLEAN, parent_name \in ParentNames :
            call' = Call("map_schema_type", schema, ref_, is_required, parent_name,
                         map_schema_type(swagger, schema, ref_, is_required, parent_name))
    /\ pc' = "returned"
    /\ UNCHANGED <<swagger, prototypes, idx, generated_models, output, prototyper_calls, consumed>>

CodeGeneratorMapSchemaType ==
    /\ pc = "start"
    /\ \E schema \in TypeSchemas(MaxDepth), ref_ \in {None, Some(<<65>>)},
          is_required \in BOOLEAN, parent_name \in ParentNames :
            call' = Call("CodeGenerator::map_schema_type", schema, ref_, is_required,
                         parent_name,
                         CodeGenerator_map_schema_type(swagger, schema, ref_,
                                                       is_required, parent_name))
    /\ pc' = "returned"
    /\ UNCHANGED <<swagger, prototypes, idx, generated_models, output, prototyper_calls, consumed>>

MapItemType ==
    /\ pc = "start"
    /\ \E item \in TypeItems(MaxDepth), is_required \in BOOLEAN,
          parent_name \in ParentNames :
            call' = Call("map_item_type", item, None, is_required, parent_name,
                         map_item_type(swagger, item, is_required, parent_name))
    /\ pc' = "returned"
    /\ UNCHANGED <<swagger, prototypes, idx, generated_models, output, prototyper_calls, consumed>>

MapReferenceType ==
    /\ pc = "start"
    /\ \E ref_ \in TypeRefs, is_required \in BOOLEAN, parent_name \in ParentNames :
            call' = Call("map_reference_type", ref_, None, is_required, parent_name,
                         map_reference_type(swagger, ref_, is_required, parent_name))
    /\ pc' = "returned"
    /\ UNCHANGED <<swagger, prototypes, idx, generated_models, output, prototyper_calls, consumed>>

\* the type generate_props_schema writes for the property "x" of the type "P"
FieldType ==
    /\ pc = "start"
    /\ \E item \in TypeItems(MaxDepth), is_required \in BOOLEAN :
            call' = Call("field_type", item, None, is_required, Some(<<80>>),
                         Some(field_type(swagger, <<80>>, <<120>>, item, is_required)))
    /\ pc' = "returned"
    /\ UNCHANGED <<swagger, prototypes, idx, generated_models, output, prototyper_calls, consumed>>

\* the items of the properties of the records below: numbers without a
\* format, with the formats int32 and double, a string and a reference
PropertyItems ==
    {ItemObject(TypedSchema("number")),
     ItemObject(FormatSchema("number", <<105, 110, 116, 51, 50>>)),
     ItemObject(FormatSchema("number", <<100, 111, 117, 98, 108, 101>>)),
     ItemObject(TypedSchema("string")),
     ItemReference(DefinitionRef(<<65>>))}

\* generate_props_schema on the record "P" with the properties x and y; the
\* result is the list of the fields it wrote
GeneratePropsSchema ==
    /\ pc = "start"
    /\ \E x \in PropertyItems, y \in PropertyItems,
          required \in {<<>>, <<<<120>>>>, <<<<121>>>>, <<<<120>>, <<121>>>>} :
        LET schema == [DefaultSchema EXCEPT
                          !.type_ = Some("object"),
                          !.properties = Some([k \in {<<120>>, <<121>>} |->
                                                  IF k = <<120>> THEN x ELSE y]),
                          !.required = required]
            emitted == generate_props_schema(swagger, <<>>, <<80>>, schema, 1)
        IN  call' = Call("generate_props_schema", schema, None, TRUE, None,
                         Some(emitted.decls[1].fields))
    /\ pc' = "returned"
    /\ UNCHANGED <<swagger, prototypes, idx, generated_models, output, prototyper_calls,
                   consumed>>

NextType ==
    \/ MapSchemaType
    \/ CodeGeneratorMapSchemaType
    \/ MapItemType
    \/ MapReferenceType
    \/ FieldType
    \/ GeneratePropsSchema

SpecType == InitType /\ [][NextType]_vars

\* a Nullable whose direct argument is a Nullable, anywhere in the type
RECURSIVE NestedNullable(_)
NestedNullable(ty) ==
    CASE ty.tag = "Option" -> ty.arg.tag = "Option" \/ NestedNullable(ty.arg)
      [] ty.tag \in {"Vec", "Object"} -> NestedNullable(ty.arg)
      [] OTHER -> FALSE

IsTypeCall ==
    call.fn \in {"map_schema_type", "CodeGenerator::map_schema_type",
                 "map_item_type", "map_reference_type", "field_type"}

\* C9: no type returned by map_schema_type, map_item_type or
\* map_reference_type, and no field type written for a property (the
\* fallback of an unmapped property included), holds a Nullable directly
\* inside a Nullable, whatever the schema, the references and is_required.
C9_NoNestedNullable ==
    (IsTypeCall /\ IsSome(call.result)) => ~NestedNullable(Unwrap(call.result))

\* a property that is not required and whose items reference the response
\* "R", an alias of the array definition "A": Option<Vec<R>>
C9_Witness ==
    /\ call.fn = "field_type"
    /\ ~call.is_required
    /\ call.arg = ItemObject([DefaultSchema EXCEPT
                                !.type_ = Some("array"),
                                !.items = Some(ItemReference(ResponseRef(<<82>>)))])
    /\ DefinitionTable[<<65>>] = ArraySchema(<<66>>)
    /\ call.result = Some(TyOption(TyVec(TyCustom(<<82>>))))

\* C10: for a schema of type integer without a format, map_schema_type
\* returns the pointer-sized signed integer when is_required holds and
\* Nullable of it otherwise.
C10_IntegerDefaultsToISize ==
    (/\ call.fn \in {"map_schema_type", "CodeGenerator::map_schema_type"}
     /\ call.arg.type_ = Some("integer")
     /\ IsNone(call.arg.format))
        => call.result = IF call.is_required THEN Some(Ty("ISize"))
                         ELSE Some(TyOption(Ty("ISize")))

----------------------------------------------------------------------------
(* Two runs of Prototyper::generate_prototypes on one document *)

\* the largest number of operations of one path
MaxOps == 2

\* {type: object, properties: {x: {type: object, properties: {y: boolean}},
\*                             y: {type: object, properties: {x: string}}}}:
\* two properties that both get a child prototype
TwoChildrenSchema ==
    [DefaultSchema EXCEPT
        !.type_ = Some("object"),
        !.properties = Some([k \in {<<120>>, <<121>>} |->
            ItemObject([DefaultSchema EXCEPT
                !.type_ = Some("object"),
                !.properties = Some([j \in {<<120>>, <<121>>} \ {k} |->
                    ItemObject(IF k = <<120>> THEN TypedSchema("boolean")
                               ELSE TypedSchema("string"))])])])]

\* the definitions "A" and "B"
ProtoDefinitionTables ==
    {None,
     Some([k \in {<<65>>} |-> TwoChildrenSchema]),
     Some([k \in {<<65>>, <<66>>} |->
            IF k = <<65>> THEN NestedSchema(<<66>>) ELSE TwoChildrenSchema]),
     Some([k \in {<<65>>, <<66>>} |->
            IF k = <<65>> THEN ReferenceSchema(<<66>>) ELSE EnumSchema])}

\* the responses "R" and "S"
ProtoResponseTables ==
    {None,
     Some([k \in {<<82>>} |-> ResponseObject(Some("d"), Some(TwoChildrenSchema))]),
     Some([k \in {<<82>>, <<83>>} |->
            IF k = <<82>> THEN ResponseReference(DefinitionRef(<<65>>))
            ELSE ResponseObject(None, Some(RecordSchema))])}

\* the operation named id: a response with a record, one without a schema
\* and a body parameter "b"
ProtoOperation(id) ==
    Operation(Some(id),
              [code \in {<<50, 48, 48>>, <<52, 48, 52>>} |->
                    IF code = <<50, 48, 48>>
                    THEN ResponseObject(Some("d"), Some(RecordSchema))
                    ELSE ResponseObject(None, Some(TypedSchema("string")))],
              <<BodyParameter(<<98>>, RecordSchema)>>)

\* the methods a path of the catalogue can carry, with the second letter of
\* the operation's name: get "g", put "u", post "o"
ProtoMethods == {<<"get", 103>>, <<"put", 117>>, <<"post", 111>>}

\* the path named "/" + letter with the operations ms, the operation of a
\* method named letter + the method's letter
ProtoPath(letter, ms) ==
    PathItem([m \in DOMAIN NoOperations |->
        IF \E e \in ms : e[1] = m
        THEN Some(ProtoOperation(<<letter, (CHOOSE e \in ms : e[1] = m)[2]>>))
        ELSE None])

\* the paths "/p" and "/q", each with at most MaxOps operations
ProtoPathsTables ==
    {None, Some([k \in {<<47, 112>>} |-> PathExtension])}
    \cup {Some([k \in {<<47, 112>>, <<47, 113>>} |->
                IF k = <<47, 112>> THEN ProtoPath(112, ms) ELSE ProtoPath(113, {<<"get", 103>>})]) :
            ms \in {M \in SUBSET ProtoMethods : Cardinality(M) >= 1 /\ Cardinality(M) <= MaxOps}}

ProtoDocuments ==
    {[definitions |-> d, responses |-> r, paths |-> p] :
        d \in ProtoDefinitionTables, r \in ProtoResponseTables, p \in ProtoPathsTables}

InitProto ==
    /\ swagger \in ProtoDocuments
    /\ pc = "start"
    /\ prototypes = <<>>
    /\ idx = 1
    /\ generated_models = <<>>
    /\ output = <<>>
    /\ call = NoCall
    /\ prototyper_calls = 0
    /\ consumed = <<>>

\* the first run: the list is kept in prototypes
GeneratePrototypes ==
    /\ pc = "start"
    /\ \E ps \in generate_prototypes(swagger) : prototypes' = ps
    /\ pc' = "first"
    /\ prototyper_calls' = prototyper_calls + 1
    /\ UNCHANGED <<swagger, idx, generated_models, output, call, consumed>>

\* the second run on the same document: the list is the call's result
GeneratePrototypesAgain ==
    /\ pc = "first"
    /\ \E ps \in generate_prototypes(swagger) :
            call' = Call("generate_prototypes", swagger, None, TRUE, None, ps)
    /\ pc' = "second"
    /\ prototyper_calls' = prototyper_calls + 1
    /\ UNCHANGED <<swagger, prototypes, idx, generated_models, output, consumed>>

NextProto == GeneratePrototypes \/ GeneratePrototypesAgain

SpecProto == InitProto /\ [][NextProto]_vars

\* how many times x occurs in the list
Occurrences(list, x) == Cardinality({i \in 1..Len(list) : list[i] = x})

\* C11: two runs of generate_prototypes on one document return lists that
\* are equal as multisets of (name, parent_name, schema) triples.
C11_SameMultiset ==
    pc = "second" =>
        /\ Len(prototypes) = Len(call.result)
        /\ \A i \in 1..Len(prototypes) :
                Occurrences(prototypes, prototypes[i])
                    = Occurrences(call.result, prototypes[i])

\* the two runs returned the prototypes in different orders
C11_Witness ==
    /\ pc = "second"
    /\ Len(prototypes) > 1
    /\ prototypes # call.result

\* The catalogue names its roots so that the root of a prototype shows in
\* the first letters of its name: definitions "A", "B", responses "R", "S",
\* operations "p" or "q" (the path) followed by the method's letter.
RootLetter(p) == ToLowerChar(p.name[1])

\* 1 for a definition, 2 for a named response, 3 for a path operation
RootRank(p) ==
    IF RootLetter(p) \in {97, 98} THEN 1
    ELSE IF RootLetter(p) \in {114, 115} THEN 2
    ELSE 3

\* the position of the operation's method in get, put, post, ...
MethodRank(p) ==
    IF RootRank(p) # 3 THEN 0
    ELSE LET letter == ToLowerChar(p.name[2])
             method == (CHOOSE e \in ProtoMethods : e[2] = letter)[1]
         IN  CHOOSE m \in 1..Len(METHODS) : METHODS[m] = method

\* the root of p is visited no later than the root of q
RootBefore(p, q) ==
    \/ RootRank(p) < RootRank(q)
    \/ /\ RootRank(p) = RootRank(q)
       /\ \/ RootLetter(p) < RootLetter(q)
          \/ RootLetter(p) = RootLetter(q) /\ MethodRank(p) <= MethodRank(q)

\* C19: in the list generate_prototypes returns, the prototypes rooted in a
\* definition come first, then those rooted in a named response, then those
\* rooted in a path operation; definitions, responses and paths each ascend
\* by name, and the operations of one path follow the order get, put, post,
\* delete, options, head, patch.
C19_RootOrder ==
    pc \in {"first", "second"} =>
        \A i, j \in 1..Len(prototypes) :
            i < j => RootBefore(prototypes[i], prototypes[j])

\* a list with prototypes of all three roots, two definitions, two paths
\* and the operations put and post of one path
C19_Witness ==
    /\ pc = "first"
    /\ {RootRank(prototypes[i]) : i \in 1..Len(prototypes)} = {1, 2, 3}
    /\ {65, 66} \subseteq {prototypes[i].name[1] : i \in 1..Len(prototypes)}
    /\ \E i, j \in 1..Len(prototypes) :
            /\ RootLetter(prototypes[i]) = 112 /\ RootLetter(prototypes[j]) = 113
    /\ \E i, j \in 1..Len(prototypes) :
            /\ i < j
            /\ RootLetter(prototypes[i]) = 112 /\ RootLetter(prototypes[j]) = 112
            /\ MethodRank(prototypes[i]) = 2 /\ MethodRank(prototypes[j]) = 3

\* C20: the child prototypes of one schema, named after the properties they
\* come from, appear in the list in ascending order of the property names.
C20_ChildrenInPropertyOrder ==
    pc \in {"first", "second"} =>
        \A i, j \in 1..Len(prototypes) :
            (/\ i < j
             /\ IsSome(prototypes[i].parent_name)
             /\ prototypes[i].parent_name = prototypes[j].parent_name)
                => \A ki, kj \in {<<120>>, <<121>>} :
                        LET parent == Unwrap(prototypes[i].parent_name) IN
                        (/\ prototypes[i].name = parent \o ki \o INLINE_ITEM
                         /\ prototypes[j].name = parent \o kj \o INLINE_ITEM)
                            => StrLeq(ki, kj)

----------------------------------------------------------------------------
(* Records written by a run of the Rust backend *)

\* the positions of the records in the output
RecordIndices == {k \in 1..Len(output) : output[k].kind = "struct"}

\* the schema the record at position k was written from: the schema of its
\* prototype after the merge of generate_object_model
RecordSchemaOf(k) ==
    merge_all_of_schema(swagger, prototypes[output[k].origin].schema.schema)

\* the property's type maps when the property is taken for a required one
Mappable(item) == IsSome(map_item_type(swagger, item, TRUE, None))

\* the record at position k has exactly one field per property of its schema
OneFieldPerProperty(k) ==
    LET props == Unwrap(RecordSchemaOf(k).properties)
        fields == output[k].fields
    IN  /\ Len(fields) = Cardinality(DOMAIN props)
        /\ {fields[i].prop : i \in 1..Len(fields)} = DOMAIN props

\* C12 as claimed: every record has exactly one field per property of its
\* schema, and a field's type is wrapped in Option exactly when the
\* property's name is not in the schema's required list.
C12_OptionIffNotRequired ==
    \A k \in RecordIndices :
        /\ OneFieldPerProperty(k)
        /\ \A i \in 1..Len(output[k].fields) :
                output[k].fields[i].ty.tag = "Option"
                    <=> ~Contains(RecordSchemaOf(k).required, output[k].fields[i].prop)

\* C12 amended: every record has exactly one field per property of its
\* schema; a field whose property maps to a type is wrapped in Option
\* exactly when the property is not required, and a field whose property
\* does not map is Option<Value>, required or not.
C12_OptionIffNotRequiredOrUnmapped ==
    \A k \in RecordIndices :
        /\ OneFieldPerProperty(k)
        /\ \A i \in 1..Len(output[k].fields) :
                LET field == output[k].fields[i]
                    item == Unwrap(RecordSchemaOf(k).properties)[field.prop]
                IN  IF Mappable(item)
                    THEN /\ field.ty.tag = "Option"
                                <=> ~Contains(RecordSchemaOf(k).required, field.prop)
                         /\ field.ty # TyOption(Ty("Value"))
                    ELSE field.ty = TyOption(Ty("Value"))

\* a finished run that wrote a record with a required and an optional mapped
\* field, and a record with a required field whose type does not map
C12_Witness ==
    /\ pc = "done"
    /\ \E k \in RecordIndices :
            /\ RecordSchemaOf(k) = RecordSchema
            /\ output[k].fields = <<[prop |-> <<120>>, ty |-> Ty("String")],
                                    [prop |-> <<121>>, ty |-> TyOption(Ty("ISize"))]>>
    /\ \E k \in RecordIndices :
            /\ RecordSchemaOf(k) = RequiredUnmappedSchema
            /\ output[k].fields = <<[prop |-> <<120>>, ty |-> TyOption(Ty("Value"))]>>

----------------------------------------------------------------------------
(* Results of the Type Resolver on containers *)

\* the type under the Option a call wraps its result in when the value is
\* not required
BaseType(ty) == IF ty.tag = "Option" THEN ty.arg ELSE ty

\* a call of map_schema_type without a reference hint on a schema of type
\* object that has additionalProperties
IsMapCall ==
    /\ call.fn = "map_schema_type"
    /\ IsNone(call.ref_)
    /\ is_object(call.arg)
    /\ IsSome(call.arg.additional_properties)

\* the type the additionalProperties of the call's schema resolve to
ValueType ==
    map_item_type(swagger, Unwrap(call.arg.additional_properties), TRUE, call.parent_name)

\* C13: for an object schema with additionalProperties and no reference
\* hint, map_schema_type returns Map of the type its additionalProperties
\* resolve to (nothing when they do not resolve) and never a named
\* reference, whether or not the schema has properties as well; for
\* additionalProperties {type: integer} the result is Map of isize.
C13_AdditionalPropertiesMap ==
    IsMapCall =>
        /\ IsSome(ValueType)
                => /\ IsSome(call.result)
                   /\ BaseType(Unwrap(call.result)) = TyObject(Unwrap(ValueType))
                   /\ Unwrap(call.result).tag = "Option" <=> ~call.is_required
        /\ IsNone(ValueType) => IsNone(call.result)
        /\ call.arg.additional_properties = Some(ItemObject(TypedSchema("integer")))
                => BaseType(Unwrap(call.result)) = TyObject(Ty("ISize"))

\* a titled schema with properties and additionalProperties {type: integer},
\* called with a parent name, has returned Map of isize
C13_Witness ==
    /\ IsMapCall
    /\ IsSome(call.arg.properties)
    /\ IsSome(call.arg.title)
    /\ IsSome(call.parent_name)
    /\ call.result = Some(TyObject(Ty("ISize")))

\* a call that maps a schema of type array with a reference hint: a call of
\* map_schema_type given the hint, or a call of map_reference_type whose
\* reference resolves to an array; with the hint
ArrayHint ==
    IF call.fn = "map_schema_type" /\ IsSome(call.ref_) /\ is_array(call.arg)
    THEN call.ref_
    ELSE IF /\ call.fn = "map_reference_type"
            /\ IsSome(get_ref_schema(swagger, call.arg))
            /\ is_array(Unwrap(get_ref_schema(swagger, call.arg)))
    THEN Some(call.arg)
    ELSE None

\* C16 as claimed: a schema of type array mapped with a reference hint maps
\* to Vec of the named reference.
C16_ArrayHintIsListOfNamed ==
    IsSome(ArrayHint) =>
        /\ IsSome(call.result)
        /\ BaseType(Unwrap(call.result)) = TyVec(TyCustom(trim_reference(Unwrap(ArrayHint))))

\* C16 amended: a schema of type array mapped with a reference hint maps to
\* the named reference itself, whatever its items are, wrapped in Option
\* exactly when the value is not required.
C16_ArrayHintIsNamed ==
    IsSome(ArrayHint) =>
        /\ IsSome(call.result)
        /\ BaseType(Unwrap(call.result)) = TyCustom(trim_reference(Unwrap(ArrayHint)))
        /\ Unwrap(call.result).tag = "Option" <=> ~call.is_required

\* map_reference_type has mapped a reference to the array definition "A"
C16_Witness ==
    /\ call.fn = "map_reference_type"
    /\ call.arg = DefinitionRef(<<65>>)
    /\ DefinitionTable[<<65>>] = ArraySchema(<<66>>)
    /\ call.is_required
    /\ call.result = Some(TyCustom(<<65>>))

----------------------------------------------------------------------------
(* Prototypes a run of the Rust backend skips *)

\* an Object-kind prototype whose merged schema has no properties, is not an
\* array, is not a string enumeration and maps to no type
Unmodelled(model) ==
    /\ ~is_reference(model.schema)
    /\ LET schema == merge_all_of_schema(swagger, model.schema.schema) IN
        /\ IsNone(schema.properties)
        /\ ~is_array(schema)
        /\ ~is_string_enum(schema)
        /\ IsNone(map_schema_type(swagger, schema, None, TRUE, Some(model.name)))

\* C18: the step of the run that handles a prototype whose merged schema has
\* no properties, is not an array, is not a string enumeration and maps to
\* no type writes nothing, leaves the registry as it is and moves on to the
\* next prototype.
C18_UnmodelledIsSkipped ==
    [][(/\ pc = "models"
        /\ idx <= Len(prototypes)
        /\ Unmodelled(prototypes[idx]))
            => /\ output' = output
               /\ generated_models' = generated_models
               /\ idx' = idx + 1
               /\ pc' = "models"
               /\ prototypes' = prototypes]_vars

\* a finished run that skipped such a prototype and wrote a declaration for
\* a later one
C18_Witness ==
    /\ pc = "done"
    /\ \E i, j \in 1..Len(prototypes) :
            /\ i < j
            /\ Unmodelled(prototypes[i])
            /\ \E k \in DeclarationIndices : output[k].origin = j
            /\ \A k \in 1..Len(output) : output[k].origin # i

----------------------------------------------------------------------------
(* Completion of a run of the Rust backend *)

\* C14: every run of generate eventually completes, having dispatched every
\* prototype of the sorted list.
C14_RunCompletes == <>(pc = "done" /\ Len(consumed) = Len(prototypes))

----------------------------------------------------------------------------
(* Python backend: python::Type *)

PyTy(tag) == [tag |-> tag]

PyList(t) == [tag |-> "List", arg |-> t]

PyMap(t) == [tag |-> "Map", arg |-> t]

PyCustom(name) == [tag |-> "Custom", name |-> name]

\* python::KEYWORDS
python_KEYWORDS ==
    {<<70, 97, 108, 115, 101>>, <<97, 119, 97, 105, 116>>, <<101, 108, 115, 101>>,
     <<105, 109, 112, 111, 114, 116>>, <<112, 97, 115, 115>>, <<78, 111, 110, 101>>,
     <<98, 114, 101, 97, 107>>, <<101, 120, 99, 101, 112, 116>>, <<105, 110>>,
     <<114, 97, 105, 115, 101>>, <<84, 114, 117, 101>>, <<99, 108, 97, 115, 115>>,
     <<102, 105, 110, 97, 108, 108, 121>>, <<105, 115>>,
     <<114, 101, 116, 117, 114, 110>>, <<97, 110, 100>>,
     <<99, 111, 110, 116, 105, 110, 117, 101>>, <<102, 111, 114>>,
     <<108, 97, 109, 98, 100, 97>>, <<116, 114, 121>>, <<97, 115>>, <<100, 101, 102>>,
     <<102, 114, 111, 109>>, <<110, 111, 110, 108, 111, 99, 97, 108>>,
     <<119, 104, 105, 108, 101>>, <<97, 115, 115, 101, 114, 116>>, <<100, 101, 108>>,
     <<103, 108, 111, 98, 97, 108>>, <<110, 111, 116>>, <<119, 105, 116, 104>>,
     <<97, 115, 121, 110, 99>>, <<101, 108, 105, 102>>, <<105, 102>>, <<111, 114>>,
     <<121, 105, 101, 108, 100>>}

python_is_keyword(word) == word \in python_KEYWORDS

python_fix_name_if_keyword(name) ==
    IF python_is_keyword(name) THEN name \o <<95>> ELSE name

\* python::format_type_name
python_format_type_name(name) == python_fix_name_if_keyword(ToUpperCamel(name))

\* impl fmt::Display for python::Type
RECURSIVE python_TypeToString(_)
python_TypeToString(ty) ==
    CASE ty.tag = "String" -> <<115, 116, 114>>
      [] ty.tag = "Bool" -> <<98, 111, 111, 108>>
      [] ty.tag = "Int" -> <<105, 110, 116>>
      [] ty.tag = "Float" -> <<102, 108, 111, 97, 116>>
      [] ty.tag = "List" -> <<76, 105, 115, 116, 91>> \o python_TypeToString(ty.arg) \o <<93>>
      [] ty.tag = "Map" -> <<77, 97, 112, 91>> \o python_TypeToString(ty.arg) \o <<93>>
      [] ty.tag = "Value" -> python_TypeToString(PyMap(PyTy("String")))
      [] ty.tag = "Custom" -> python_format_type_name(ty.name)

RECURSIVE python_map_schema_type(_, _, _, _, _)
RECURSIVE python_map_item_type(_, _, _, _)
RECURSIVE python_map_reference_type(_, _, _, _)

\* impl crate::v2::Type for python::Type: map_schema_type.  is_required is
\* only traced: no result is wrapped for an optional value.
python_map_schema_type(sw, schema, ref_, is_required, parent_name) ==
    IF IsNone(schema.type_) THEN None
    ELSE
    LET ty == Unwrap(schema.type_)
        items_ty(item) == python_map_item_type(sw, item, TRUE, parent_name)
        fmt == IF IsSome(schema.format) THEN Some(ToLowercase(Unwrap(schema.format)))
               ELSE None
    IN  CASE ty = "integer" -> Some(PyTy("Int"))
          [] ty = "string" ->
                IF fmt = Some(<<98, 105, 110, 97, 114, 121>>)                  \* "binary"
                THEN Some(PyList(PyTy("Int")))
                ELSE Some(PyTy("String"))
          [] ty = "boolean" -> Some(PyTy("Bool"))
          [] ty = "array" ->
                IF IsSome(ref_) THEN Some(PyCustom(trim_reference(Unwrap(ref_))))
                ELSE IF IsSome(schema.items)
                THEN LET t == items_ty(Unwrap(schema.items)) IN
                     IF IsSome(t) THEN Some(PyList(Unwrap(t))) ELSE None
                ELSE None
          [] ty = "object" ->
                IF IsSome(ref_) THEN Some(PyCustom(trim_reference(Unwrap(ref_))))
                ELSE IF IsSome(schema.additional_properties)
                THEN LET t == items_ty(Unwrap(schema.additional_properties)) IN
                     IF IsSome(t) THEN Some(PyMap(Unwrap(t))) ELSE None
                ELSE IF IsSome(schema.items)
                THEN LET t == items_ty(Unwrap(schema.items)) IN
                     IF IsSome(t) THEN Some(PyMap(Unwrap(t))) ELSE None
                ELSE IF IsSome(schema.properties)
                THEN IF IsSome(schema_name(schema))
                     THEN Some(PyCustom(Unwrap(schema_name(schema))))
                     ELSE IF IsSome(parent_name)
                     THEN Some(PyCustom(Unwrap(parent_name) \o INLINE_ITEM))
                     ELSE Some(PyTy("Value"))
                ELSE Some(PyTy("Value"))
          [] ty = "number" ->
                IF schema.format \in {Some(<<100, 111, 117, 98, 108, 101>>),   \* "double"
                                      Some(<<102, 108, 111, 97, 116>>)}        \* "float"
                THEN Some(PyTy("Float"))
                ELSE None
          [] OTHER -> None

\* Swagger::map_reference_type with T = python::Type
python_map_reference_type(sw, ref_, is_required, parent_name) ==
    LET schema == get_ref_schema(sw, ref_) IN
    IF IsNone(schema) THEN None
    ELSE python_map_schema_type(sw, Unwrap(schema),
             Some(TrimStartMatches(TrimStartMatches(ref_, RESPONSES_REF), DEFINITIONS_REF)),
             is_required, parent_name)

\* Swagger::map_item_type with T = python::Type
python_map_item_type(sw, item, is_required, parent_name) ==
    IF item.kind = "Reference"
    THEN python_map_reference_type(sw, item.ref, is_required, parent_name)
    ELSE python_map_schema_type(sw, item.schema, None, is_required, parent_name)

----------------------------------------------------------------------------
(* Python backend: python::Codegen *)

\* one writeln!(writer) with no text
BlankLine(origin) == Declaration("blank", <<>>, None, <<>>, origin)

\* print_json_encoders: the JsonEncoder and JsonDecoder classes of a type
print_json_encoders(type_name, origin) ==
    Declaration("encoders", type_name, None, <<>>, origin)

\* the two checks every alias of the Python backend makes before its write
python_alias_skipped(generated, type_name, ty) ==
    \/ type_name = python_TypeToString(ty)
    \/ Contains(generated, type_name)

python_generate_reference_model(sw, generated, ref_, model, origin) ==
    LET found == get_ref_schema(sw, ref_) IN
    IF IsNone(found) THEN Nothing
    ELSE
    LET schema == merge_all_of_schema(sw, Unwrap(found)) IN
    IF ~is_object(schema) THEN Nothing
    ELSE
    LET ty == python_map_reference_type(sw, ref_, TRUE, Some(model.name))
        type_name == python_format_type_name(model.name)
    IN  IF IsNone(ty) THEN Nothing
        ELSE IF python_alias_skipped(generated, type_name, Unwrap(ty)) THEN Nothing
        ELSE Emitted(<<Declaration("alias", type_name, ty, <<>>, origin)>>, <<type_name>>)

\* the type of one class attribute, with the fallback for an unmapped one
python_field_type(sw, type_name, prop, item, is_required) ==
    LET ty == IF item.kind = "Reference"
              THEN python_map_reference_type(sw, item.ref, is_required, Some(prop))
              ELSE python_map_item_type(sw, item, is_required,
                                        Some(type_name \o <<95>> \o prop))
    IN  IF IsSome(ty) THEN Unwrap(ty) ELSE PyTy("Value")

\* generate_props_schema: the encoders and the dataclass.  No value of
\* python::Type is Optional, so every attribute is written with the required
\* ones, in the order of the sorted property names.
python_generate_props_schema(sw, generated, name, schema, origin) ==
    LET props == Unwrap(schema.properties)
        type_name == python_format_type_name(name)
        keys == SortedKeys(DOMAIN props)
        fields == [i \in 1..Len(keys) |->
                      [prop |-> keys[i],
                       ty |-> python_field_type(sw, type_name, keys[i], props[keys[i]],
                                                Contains(schema.required, keys[i]))]]
    IN  Emitted(<<print_json_encoders(type_name, origin),
                  Declaration("class", type_name, None, fields, origin)>>,
                <<type_name>>)

python_generate_array_schema(sw, generated, name, schema, origin) ==
    IF IsNone(schema.items) THEN Nothing
    ELSE
    LET ty == python_map_item_type(sw, Unwrap(schema.items), TRUE, Some(name))
        type_name == python_format_type_name(name)
    IN  IF IsNone(ty) THEN Nothing
        ELSE IF python_alias_skipped(generated, type_name, PyList(Unwrap(ty))) THEN Nothing
        ELSE Emitted(<<print_json_encoders(type_name, origin),
                       Declaration("type_alias", type_name, Some(PyList(Unwrap(ty))),
                                   <<>>, origin)>>,
                     <<type_name>>)

\* generate_enum_schema only registers the name
python_generate_enum_schema(sw, generated, name, schema, origin) ==
    Emitted(<<>>, <<python_format_type_name(name)>>)

\* the name generate_schema works with
python_schema_name(name0, parent_name, schema) ==
    IF name0 = <<>>
    THEN IF IsSome(schema_name(schema)) THEN Unwrap(schema_name(schema))
         ELSE IF IsSome(parent_name) THEN Unwrap(parent_name) \o INLINE_ITEM
         ELSE name0
    ELSE name0

\* what generate_schema writes after its blank line
python_generate_schema_body(sw, generated, name, schema, origin) ==
    IF IsSome(schema.properties)
    THEN python_generate_props_schema(sw, generated, name, schema, origin)
    ELSE IF is_array(schema)
    THEN python_generate_array_schema(sw, generated, name, schema, origin)
    ELSE IF is_string_enum(schema)
    THEN python_generate_enum_schema(sw, generated, name, schema, origin)
    ELSE IF IsSome(schema.ref_) THEN Nothing
    ELSE LET ty == python_map_schema_type(sw, schema, None, TRUE, Some(name))
             type_name == python_format_type_name(name)
         IN  IF IsNone(ty) THEN Nothing
             ELSE IF python_alias_skipped(generated, type_name, Unwrap(ty)) THEN Nothing
             ELSE Emitted(<<Declaration("alias", type_name, ty, <<>>, origin)>>,
                          <<type_name>>)

\* generate_schema: writeln!(writer) comes before every branch and every check
python_generate_schema(sw, generated, name0, parent_name, schema, origin) ==
    LET name == python_schema_name(name0, parent_name, schema)
        body == python_generate_schema_body(sw, generated, name, schema, origin)
    IN  Emitted(<<BlankLine(origin)>> \o body.decls, body.names)

python_generate_object_model(sw, generated, schema, model, origin) ==
    python_generate_schema(sw, generated, model.name, model.parent_name,
                           merge_all_of_schema(sw, schema), origin)

python_generate_model(sw, generated, model, i) ==
    IF is_reference(model.schema)
    THEN python_generate_reference_model(sw, generated, model.schema.ref, model, i)
    ELSE python_generate_object_model(sw, generated, model.schema.schema, model, i)

\* the loop of generate_forward_declarations over the list ps, from index i:
\* a prototype with no name and no parent is passed over
RECURSIVE forward_declarations(_, _)
forward_declarations(ps, i) ==
    IF i > Len(ps) THEN <<>>
    ELSE LET p == ps[i]
             rest == forward_declarations(ps, i + 1)
         IN  IF p.name = <<>> /\ IsNone(p.parent_name) THEN rest
             ELSE LET name == IF p.name = <<>> THEN Unwrap(p.parent_name) \o INLINE_ITEM
                              ELSE p.name
                  IN  <<Declaration("forward", python_format_type_name(name), None, <<>>, i)>>
                          \o rest

----------------------------------------------------------------------------
(* One run of Codegen::generate of the Python backend *)

\* generate_helpers: the import lines
PythonGenerateHelpers ==
    /\ pc = "start"
    /\ pc' = "python_helpers"
    /\ output' = Append(output, Declaration("helpers", <<>>, None, <<>>, 0))
    /\ UNCHANGED <<swagger, prototypes, idx, generated_models, call, prototyper_calls,
                   consumed>>

\* generate_forward_declarations: self.prototypes(swagger), a blank line and
\* one typing.NewType line per prototype of that list
GenerateForwardDeclarations ==
    /\ pc = "python_helpers"
    /\ \E ps \in backend_prototypes(swagger) :
        /\ prototypes' = ps
        /\ output' = output \o <<BlankLine(0)>> \o forward_declarations(ps, 1)
        /\ consumed' = consumed \o ps
    /\ prototyper_calls' = prototyper_calls + 1
    /\ pc' = "python_forward"
    /\ UNCHANGED <<swagger, idx, generated_models, call>>

\* generate_models, up to its loop: self.prototypes(swagger) a second time
PythonPrototypes ==
    /\ pc = "python_forward"
    /\ \E ps \in backend_prototypes(swagger) : prototypes' = ps
    /\ idx' = 1
    /\ pc' = "models"
    /\ prototyper_calls' = prototyper_calls + 1
    /\ UNCHANGED <<swagger, generated_models, output, call, consumed>>

\* one iteration of the loop of generate_models
PythonGenerateModel(kind) ==
    /\ pc = "models"
    /\ idx <= Len(prototypes)
    /\ prototypes[idx].schema.kind = kind
    /\ ~never_returns(swagger, prototypes[idx])
    /\ LET emitted == python_generate_model(swagger, generated_models, prototypes[idx], idx)
       IN  /\ output' = output \o emitted.decls
           /\ generated_models' = generated_models \o emitted.names
    /\ idx' = idx + 1
    /\ consumed' = Append(consumed, prototypes[idx])
    /\ UNCHANGED <<swagger, pc, prototypes, call, prototyper_calls>>

PythonGenerateReferenceModel == PythonGenerateModel("Reference")

PythonGenerateObjectModel == PythonGenerateModel("Object")

NextPython ==
    \/ PythonGenerateHelpers
    \/ GenerateForwardDeclarations
    \/ PythonPrototypes
    \/ PythonGenerateReferenceModel
    \/ PythonGenerateObjectModel
    \/ GetRefSchemaDiverges
    \/ Finish

SpecPython == Init /\ [][NextPython]_vars

----------------------------------------------------------------------------
(* Calls of the Prototyper and uses of its prototypes in one run *)

\* C15: in a finished run of generate the Prototyper was invoked exactly once
\* and every prototype of the list was consumed exactly once.
C15_PrototyperOnceConsumedOnce ==
    pc = "done" =>
        /\ prototyper_calls = 1
        /\ Len(consumed) = Len(prototypes)
        /\ \A i \in 1..Len(prototypes) :
              Occurrences(consumed, prototypes[i]) = Occurrences(prototypes, prototypes[i])

----------------------------------------------------------------------------
(* Skipped aliases of the Python backend *)

\* the alias the Python backend is about to write for a prototype: its
\* formatted name and its right-hand type, or None when the prototype leads to
\* no alias
python_alias_of(sw, model) ==
    IF is_reference(model.schema)
    THEN LET found == get_ref_schema(sw, model.schema.ref) IN
         IF IsNone(found) \/ found = Diverges THEN None
         ELSE IF ~is_object(merge_all_of_schema(sw, Unwrap(found))) THEN None
         ELSE LET ty == python_map_reference_type(sw, model.schema.ref, TRUE,
                                                  Some(model.name))
              IN  IF IsNone(ty) THEN None
                  ELSE Some([type_name |-> python_format_type_name(model.name),
                             ty |-> Unwrap(ty)])
    ELSE LET schema == merge_all_of_schema(sw, model.schema.schema)
             name == python_schema_name(model.name, model.parent_name, schema)
             type_name == python_format_type_name(name)
         IN  IF IsSome(schema.properties) THEN None
             ELSE IF is_array(schema)
             THEN IF IsNone(schema.items) THEN None
                  ELSE LET ty == python_map_item_type(sw, Unwrap(schema.items), TRUE,
                                                      Some(name))
                       IN  IF IsNone(ty) THEN None
                           ELSE Some([type_name |-> type_name, ty |-> PyList(Unwrap(ty))])
             ELSE IF is_string_enum(schema) \/ IsSome(schema.ref_) THEN None
             ELSE LET ty == python_map_schema_type(sw, schema, None, TRUE, Some(name))
                  IN  IF IsNone(ty) THEN None
                      ELSE Some([type_name |-> type_name, ty |-> Unwrap(ty)])

\* the prototype at idx is skipped as a self-alias or as a name the registry
\* already holds
PythonAliasSkipped ==
    /\ pc = "models"
    /\ idx <= Len(prototypes)
    /\ LET alias == python_alias_of(swagger, prototypes[idx]) IN
        /\ IsSome(alias)
        /\ python_alias_skipped(generated_models, Unwrap(alias).type_name, Unwrap(alias).ty)

\* C17: a prototype skipped as a self-alias or because its formatted name is in
\* the registry writes nothing to the output and leaves the registry unchanged.
C17_SkippedAliasWritesNothing ==
    [][PythonAliasSkipped => output' = output /\ generated_models' = generated_models]_vars

----------------------------------------------------------------------------
(* Calls of Prototyper::add_schema_prototype *)

\* the names "A", "AInlineItem" and "InlineItem"
AddNames == {<<65>>, <<65>> \o INLINE_ITEM, INLINE_ITEM}

\* the reference every Item::Reference of the schemas below carries
ItemRef == DefinitionRef(<<66>>)

\* schemas with a $ref (alone, and next to inline children), schemas whose
\* properties and items are references, and schemas with inline children
AddBaseSchemas ==
    {RecordSchema, EnumSchema, TwoChildrenSchema, ReferenceSchema(<<65>>),
     [DefaultSchema EXCEPT
        !.ref_ = Some(DefinitionRef(<<65>>)),
        !.type_ = Some("object"),
        !.properties = Some([k \in {<<120>>} |-> ItemObject(RecordSchema)]),
        !.items = Some(ItemObject(RecordSchema))],
     [DefaultSchema EXCEPT
        !.type_ = Some("object"),
        !.properties = Some([k \in {<<120>>, <<121>>} |->
            IF k = <<120>> THEN ItemReference(ItemRef) ELSE ItemObject(RecordSchema)])],
     [DefaultSchema EXCEPT
        !.type_ = Some("object"),
        !.properties = Some([k \in {<<120>>} |-> ItemReference(ItemRef)]),
        !.items = Some(ItemReference(ItemRef))],
     [DefaultSchema EXCEPT !.type_ = Some("array"), !.items = Some(ItemReference(ItemRef))],
     [DefaultSchema EXCEPT !.type_ = Some("array"), !.items = Some(ItemObject(RecordSchema))],
     [DefaultSchema EXCEPT
        !.type_ = Some("object"),
        !.properties = Some([k \in {<<120>>} |->
            ItemObject([DefaultSchema EXCEPT
                !.type_ = Some("array"),
                !.items = Some(ItemReference(ItemRef))])])]}

\* each of them without a name, with the title "T", with the vendor name "G"
\* and with both
AddSchemas ==
    {[s EXCEPT !.title = t, !.x_go_name = g] :
        s \in AddBaseSchemas, t \in {None, Some(<<84>>)}, g \in {None, Some(<<71>>)}}

InitAdd ==
    /\ swagger = [definitions |-> None, responses |-> None, paths |-> None]
    /\ pc = "start"
    /\ prototypes = <<>>
    /\ idx = 1
    /\ generated_models = <<>>
    /\ output = <<>>
    /\ call = NoCall
    /\ prototyper_calls = 0
    /\ consumed = <<>>

\* one call on an empty Prototyper: the list it pushed is the result
AddSchemaPrototype ==
    /\ pc = "start"
    /\ \E name \in AddNames, parent_name \in ParentNames, schema \in AddSchemas :
        \E ps \in add_schema_prototype(name, parent_name, schema) :
            /\ call' = Call("add_schema_prototype", [name |-> name, schema |-> schema],
                            None, TRUE, parent_name, ps)
            /\ prototypes' = ps
    /\ pc' = "returned"
    /\ UNCHANGED <<swagger, idx, generated_models, output, prototyper_calls, consumed>>

NextAdd == AddSchemaPrototype

SpecAdd == InitAdd /\ [][NextAdd]_vars

IsAddCall == call.fn = "add_schema_prototype"

\* the schema without the properties and the items that are Item::Reference
RECURSIVE WithoutReferenceItems(_)
WithoutReferenceItems(schema) ==
    LET strip(item) == ItemObject(WithoutReferenceItems(item.schema))
        props == IF IsSome(schema.properties) THEN Unwrap(schema.properties) ELSE <<>>
        kept == {k \in DOMAIN props : props[k].kind = "Object"}
    IN  [schema EXCEPT
            !.properties = IF IsSome(schema.properties)
                           THEN Some([k \in kept |-> strip(props[k])])
                           ELSE None,
            !.items = IF IsSome(schema.items) /\ Unwrap(schema.items).kind = "Object"
                      THEN Some(strip(Unwrap(schema.items)))
                      ELSE None]

\* what identifies a prototype apart from the schema it carries
Heading(p) == [name |-> p.name, parent_name |-> p.parent_name, kind |-> p.schema.kind]

\* C21: a call of add_schema_prototype on a schema with a $ref pushes exactly
\* one prototype, of kind Reference, with that reference; and a property value
\* or array item that is an Item::Reference contributes no prototype: the
\* prototypes pushed are, by name, parent and kind, those pushed for the schema
\* without its reference items, and none of them carries an item's reference.
C21_ReferenceIsNotDescended ==
    IsAddCall =>
        LET schema == call.arg.schema
            result == call.result
        IN  /\ IsSome(schema.ref_) =>
                result = <<ModelPrototype(result[1].name, call.parent_name,
                                          ItemReference(Unwrap(schema.ref_)))>>
            /\ \A i \in 1..Len(result) :
                is_reference(result[i].schema) => result[i].schema.ref # ItemRef
            /\ \E qs \in add_schema_prototype(call.arg.name, call.parent_name,
                                              WithoutReferenceItems(schema)) :
                /\ Len(qs) = Len(result)
                /\ \A i \in 1..Len(qs) : Heading(qs[i]) = Heading(result[i])

\* a schema with a $ref, a property and items that are inline records: one
\* Reference prototype; and a schema with a reference property next to an
\* inline record property: the child of the record and the schema itself
C21_Witness ==
    /\ IsAddCall
    /\ \/ /\ IsSome(call.arg.schema.ref_)
          /\ IsSome(call.arg.schema.properties)
          /\ Len(call.result) = 1
       \/ /\ IsSome(call.arg.schema.properties)
          /\ \E k \in DOMAIN Unwrap(call.arg.schema.properties) :
                Unwrap(call.arg.schema.properties)[k].kind = "Reference"
          /\ Len(call.result) = 2

\* the prototype the call registers for its own schema is the last it pushes
Registered == call.result[Len(call.result)]

\* C22: a name ending in "InlineItem" is replaced by the vendor name of the
\* schema if it has one, otherwise by its title if it has one; a name that
\* does not end in "InlineItem" is registered unchanged.
C22_InlineItemNameReplaced ==
    IsAddCall =>
        LET schema == call.arg.schema
            name == call.arg.name
        IN  /\ (EndsWith(name, INLINE_ITEM) /\ IsSome(schema.x_go_name))
                    => Registered.name = Unwrap(schema.x_go_name)
            /\ (EndsWith(name, INLINE_ITEM) /\ IsNone(schema.x_go_name)
                                            /\ IsSome(schema.title))
                    => Registered.name = Unwrap(schema.title)
            /\ ~EndsWith(name, INLINE_ITEM) => Registered.name = name

\* "AInlineItem" with a schema that has both names is registered as "G"
C22_Witness ==
    /\ IsAddCall
    /\ call.arg.name = <<65>> \o INLINE_ITEM
    /\ call.arg.schema.title = Some(<<84>>)
    /\ call.arg.schema.x_go_name = Some(<<71>>)
    /\ Registered.name = <<71>>

----------------------------------------------------------------------------
(* Properties of type number *)

\* an inline property of type number whose format is neither float nor double
UnmappedNumber(item) ==
    /\ item.kind = "Object"
    /\ item.schema.type_ = Some("number")
    /\ item.schema.format \notin {Some(<<102, 108, 111, 97, 116>>),
                                  Some(<<100, 111, 117, 98, 108, 101>>)}

\* C23: a schema of type number with no format or a format other than float
\* and double maps to no type; the field written for such a property is
\* Option<Value> whether the property is required or not; and the record
\* still has one field for each of its properties.
C23_UnmappedNumberFallsBack ==
    /\ (call.fn \in {"map_schema_type", "CodeGenerator::map_schema_type"}
            /\ UnmappedNumber(ItemObject(call.arg)))
        => IsNone(call.result)
    /\ (call.fn \in {"map_item_type", "field_type"} /\ UnmappedNumber(call.arg))
        => call.result = IF call.fn = "field_type" THEN Some(TyOption(Ty("Value")))
                         ELSE None
    /\ call.fn = "generate_props_schema"
        => LET props == Unwrap(call.arg.properties)
               fields == Unwrap(call.result)
           IN  /\ Len(fields) = Cardinality(DOMAIN props)
               /\ \A k \in DOMAIN props : \E i \in 1..Len(fields) : fields[i].prop = k
               /\ \A i \in 1..Len(fields) :
                    UnmappedNumber(props[fields[i].prop])
                        => fields[i].ty = TyOption(Ty("Value"))

\* the record whose required property x is a number of format int32 and whose
\* property y is a string: x is Option<Value>, y is still written
C23_Witness ==
    /\ call.fn = "generate_props_schema"
    /\ Unwrap(call.arg.properties)[<<120>>]
            = ItemObject(FormatSchema("number", <<105, 110, 116, 51, 50>>))
    /\ call.arg.required = <<<<120>>>>
    /\ Unwrap(call.result) = <<[prop |-> <<120>>, ty |-> TyOption(Ty("Value"))],
                               [prop |-> <<121>>, ty |-> TyOption(Ty("String"))]>>

----------------------------------------------------------------------------
(* get_ref_schema on responses that are aliases of each other *)

\* the responses named A and B of the document are aliases of each other
CircularAliases(A, B) ==
    /\ {A, B} \subseteq DOMAIN ResponseTable
    /\ ResponseTable[A] = ResponseReference(ResponseRef(B))
    /\ ResponseTable[B] = ResponseReference(ResponseRef(A))

\* C24: get_ref_schema on a reference to a response that lies on a circular
\* alias chain (the response A is an alias of B and B an alias of A) never
\* returns.
C24_CircularChainNeverReturns ==
    call.fn = "get_ref_schema" =>
        \A A, B \in {<<65>>, <<66>>} :
            (A # B /\ CircularAliases(A, B) /\ call.arg = ResponseRef(A))
                => call.result = Diverges

----------------------------------------------------------------------------
(* Aliases written for Reference prototypes *)

\* the prototype at idx is a Reference prototype, about to be dispatched
AtReferencePrototype ==
    /\ pc = "models"
    /\ idx <= Len(prototypes)
    /\ is_reference(prototypes[idx].schema)

\* the reference of the prototype resolves and the schema found has, after
\* the allOf merge, the type object
ResolvesToObject(model) ==
    LET found == get_ref_schema(swagger, model.schema.ref) IN
    /\ IsSome(found)
    /\ found # Diverges
    /\ is_object(merge_all_of_schema(swagger, Unwrap(found)))

\* C25: a Reference prototype writes an alias only when its reference
\* resolves to a schema that has the type object after the allOf merge; when
\* the reference does not resolve, or the target is an array, a primitive or
\* untyped, the output and the registry are left as they are.
C25_AliasOnlyForObjectTarget ==
    [][AtReferencePrototype =>
          /\ (output' # output \/ generated_models' # generated_models)
                => /\ ResolvesToObject(prototypes[idx])
                   /\ \E d \in {output'[Len(output')]} :
                        /\ output' = Append(output, d)
                        /\ d.kind = "alias"
                        /\ d.origin = idx
          /\ ~ResolvesToObject(prototypes[idx])
                => /\ output' = output
                   /\ generated_models' = generated_models]_vars

\* a finished run with a Reference prototype that wrote its alias and a later
\* Reference prototype whose target is an array and that wrote nothing
C25_Witness ==
    /\ pc = "done"
    /\ \E i, j \in 1..Len(prototypes) :
        /\ is_reference(prototypes[i].schema)
        /\ is_reference(prototypes[j].schema)
        /\ \E k \in 1..Len(output) : output[k].kind = "alias" /\ output[k].origin = i
        /\ LET found == get_ref_schema(swagger, prototypes[j].schema.ref) IN
            /\ IsSome(found)
            /\ found # Diverges
            /\ is_array(Unwrap(found))
        /\ \A k \in 1..Len(output) : output[k].origin # j

----------------------------------------------------------------------------
(* The merge of a merged schema *)

\* C26: merge_all_of_schema is idempotent: the merge of the result of a merge
\* returns that result unchanged, so the schema the backend merges at emission
\* is the schema the Prototyper registered.
C26_MergeIdempotent ==
    (pc = "merged again" /\ call.fn = "merge_all_of_schema") => call.result = call.arg

\* the second merge of a schema whose first merge folded two components: the
\* result holds properties of both and no allOf list
C26_Witness ==
    /\ pc = "merged again"
    /\ call.fn = "merge_all_of_schema"
    /\ call.arg.all_of = <<>>
    /\ IsSome(call.result.properties)
    /\ Cardinality(DOMAIN Unwrap(call.result.properties)) >= 2

----------------------------------------------------------------------------
(* What the merge keeps of the outer schema *)

\* the resolved components of the merged schema, as a set
ComponentSet == {Components[i] : i \in DOMAIN Components}

\* C27: the merge of a schema with a non-empty allOf list takes the title and
\* the description of the outer schema and nothing else of it: a property, a
\* required list, a type tag, items or additionalProperties of the result are
\* those of a component; the result always has a property map, so that
\* generate_schema writes a record for it.
C27_OuterFieldsDropped ==
    IsMergeCall =>
        LET outer == call.arg
            result == call.result
        IN  /\ IsSome(outer.title) => result.title = outer.title
            /\ IsSome(outer.description) => result.description = outer.description
            /\ IsSome(result.properties)
            /\ \A k \in DOMAIN Unwrap(result.properties) :
                \E c \in ComponentSet :
                    /\ k \in PropertyKeys(c)
                    /\ Unwrap(c.properties)[k] = Unwrap(result.properties)[k]
            /\ Len(result.required) > 0 => \E c \in ComponentSet : c.required = result.required
            /\ IsSome(result.type_) => \E c \in ComponentSet : c.type_ = result.type_
            /\ IsSome(result.items) => \E c \in ComponentSet : c.items = result.items
            /\ IsSome(result.additional_properties)
                => \E c \in ComponentSet :
                        c.additional_properties = result.additional_properties
            /\ \E d \in {generate_schema(swagger, <<>>, <<80>>, None, result, 1)} :
                /\ Len(d.decls) = 1
                /\ d.decls[1].kind = "struct"

\* an outer schema with a title, a type, a required list, properties, items
\* and additionalProperties of its own, merged with a component that has
\* none of them: the result has the title and an empty property map
C27_Witness ==
    /\ IsMergeCall
    /\ IsSome(call.arg.title)
    /\ IsSome(call.arg.properties)
    /\ IsSome(call.arg.type_)
    /\ IsSome(call.arg.items)
    /\ call.result.title = call.arg.title
    /\ call.result.properties = Some(EmptyItems)
    /\ call.result.required = <<>>
    /\ IsNone(call.result.type_)
    /\ IsNone(call.result.items)
    /\ IsNone(call.result.additional_properties)

----------------------------------------------------------------------------
(* Named types the output refers to *)

\* the names of the Custom types inside a type
RECURSIVE CustomNames(_)
CustomNames(ty) ==
    CASE ty.tag = "Custom" -> {ty.name}
      [] ty.tag \in {"Vec", "Object", "Option"} -> CustomNames(ty.arg)
      [] OTHER -> {}

\* the names the declaration at position k refers to: in the types of its
\* fields and on its right-hand side
ReferredNames(k) ==
    UNION ({CustomNames(output[k].fields[i].ty) : i \in 1..Len(output[k].fields)}
           \cup {CustomNames(Unwrap(output[k].ty)) : x \in {1} \cap {Len(output[k].ty)}})

\* C28: at the end of a run every named type in a field of a written record
\* or on the right-hand side of a written alias is the name of a declaration
\* written in that run.
C28_NamedTypesAreDeclared ==
    pc = "done" =>
        \A k \in DeclarationIndices : \A name \in ReferredNames(k) :
            \E j \in DeclarationIndices : output[j].name = format_type_name(name)

----------------------------------------------------------------------------
(* The registry of generated names against the output *)

\* the names of the declarations written so far
DeclaredNames == {output[k].name : k \in DeclarationIndices}

\* the names held by generated_models
RegisteredNames == {generated_models[i] : i \in 1..Len(generated_models)}

\* C29: in every state of a run a formatted type name is in
\* generated_models exactly when a declaration with that name is in the
\* output, and no name is in generated_models twice.
C29_RegistryMatchesOutput ==
    /\ RegisteredNames = DeclaredNames
    /\ \A i, j \in 1..Len(generated_models) :
            i # j => generated_models[i] # generated_models[j]

----------------------------------------------------------------------------
(* Two runs of CodegenBackend::generate on one document *)

\* the loop of generate_models from position i on: what the writer and the
\* registry hold when it ends; a get_ref_schema that never returns ends the
\* run where it stands
RECURSIVE generate_models(_, _, _, _, _)
generate_models(sw, ps, i, generated, written) ==
    IF i > Len(ps) \/ never_returns(sw, ps[i])
    THEN Emitted(written, generated)
    ELSE LET emitted == generate_model(sw, generated, ps[i], i)
         IN  generate_models(sw, ps, i + 1, generated \o emitted.names,
                             written \o emitted.decls)

\* generate: the helpers, then the models of one sorted prototype list
generate(sw, ps) ==
    generate_models(sw, ps, 1, <<>>, <<Declaration("helpers", <<>>, None, <<>>, 0)>>)

\* {type: object, properties: {x: {x-go-name: G, type: object, properties:
\* {y: boolean}}, y: {x-go-name: G, type: object, properties: {x: string}}}}:
\* two properties whose child prototypes are both named "G"
SameNameChildrenSchema ==
    [DefaultSchema EXCEPT
        !.type_ = Some("object"),
        !.properties = Some([k \in {<<120>>, <<121>>} |->
            ItemObject([DefaultSchema EXCEPT
                !.x_go_name = Some(<<71>>),
                !.type_ = Some("object"),
                !.properties = Some([j \in {<<120>>, <<121>>} \ {k} |->
                    ItemObject(IF k = <<120>> THEN TypedSchema("boolean")
                               ELSE TypedSchema("string"))])])])]

\* the documents of the two runs of the prototyper, and those whose
\* definition "A" has two children of one name
TwiceDocuments ==
    ProtoDocuments
    \cup {[definitions |-> Some([k \in {<<65>>} |-> SameNameChildrenSchema]),
           responses |-> r, paths |-> p] :
            r \in ProtoResponseTables, p \in ProtoPathsTables}

InitTwice ==
    /\ swagger \in TwiceDocuments
    /\ pc = "start"
    /\ prototypes = <<>>
    /\ idx = 1
    /\ generated_models = <<>>
    /\ output = <<>>
    /\ call = NoCall
    /\ prototyper_calls = 0
    /\ consumed = <<>>

\* the first run: its list, registry and output are kept in the state
Generate ==
    /\ pc = "start"
    /\ \E ps \in backend_prototypes(swagger) :
            /\ prototypes' = ps
            /\ output' = generate(swagger, ps).decls
            /\ generated_models' = generate(swagger, ps).names
    /\ pc' = "first"
    /\ prototyper_calls' = prototyper_calls + 1
    /\ UNCHANGED <<swagger, idx, call, consumed>>

\* the second run on the same document, with a fresh backend: its output
\* is the call's result
GenerateAgain ==
    /\ pc = "first"
    /\ \E ps \in backend_prototypes(swagger) :
            call' = Call("generate", swagger, None, TRUE, None, generate(swagger, ps).decls)
    /\ pc' = "second"
    /\ prototyper_calls' = prototyper_calls + 1
    /\ UNCHANGED <<swagger, prototypes, idx, generated_models, output, consumed>>

NextTwice == Generate \/ GenerateAgain

SpecTwice == InitTwice /\ [][NextTwice]_vars

\* a written item without the position of the prototype it came from
Written(d) == [kind |-> d.kind, name |-> d.name, ty |-> d.ty, fields |-> d.fields]

\* the items of a run's output, in the order they were written
WrittenSequence(written) == [k \in 1..Len(written) |-> Written(written[k])]

\* C30: two runs of generate on one document with the same backend write
\* the same sequence of declarations, whatever order the property maps and
\* the response maps of the operations are walked in.
C30_SameDeclarationSequence ==
    (pc = "second" /\ call.fn = "generate")
        => WrittenSequence(call.result) = WrittenSequence(output)

====
